---- MODULE Spec2Model ----
(***************************************************************************)
(* Access and lifecycle layer of the yrs FFI wrappers: YrsDoc,             *)
(* YrsTransaction, YrsArray (doc.rs, transaction.rs, array.rs).            *)
(*                                                                         *)
(* Every wrapper call is a frame on the calling thread's stack; a frame    *)
(* advances one statement of the Rust function per step, so that two       *)
(* threads interleave exactly where the code can interleave (at lock()     *)
(* and between statements).  A panic (Option::unwrap on None, a RefCell    *)
(* borrow failure, a JSON parse failure, an index out of range) unwinds    *)
(* the frame, releasing its guards, and ends the program (fatal).          *)
(***************************************************************************)
EXTENDS Integers, Sequences, FiniteSets, TLC

\* ---------------------------------------------------------------- bounds
MaxTxns == 2
MaxLen == 2
MaxHandles == 3
MaxArrays == 2

Threads == {"A", "B"}
Txns == 1..MaxTxns
\* YrsDoc handle objects; handle 1 is the one made by YrsDoc::new for document 1.
Handles == 1..MaxHandles
\* Engine documents: 1 is the document D, 2 a document S that can be a subdocument.
Docs == {1, 2}
\* YrsArray facade objects (each with a RefCell of its own); facade 1 is the one a
\* get_array("a") on document 1 returned before the run starts.
Arrays == 1..MaxArrays
\* Names of root collections.
Names == {"a", "b"}
\* JSON texts a caller passes as values: a number and an unparsable text.
JsonTexts == {"1", "{"}

VARIABLES
    hDoc,       \* hDoc[h]: the engine document YrsDoc handle h wraps (0: no such handle yet)
    parentOf,   \* parentOf[d]: the document d is a subdocument of (0: none)
    docLock,    \* docLock[h][th]: guards thread th holds on YrsDoc h's ReentrantMutex
    txnLock,    \* txnLock[t][th]: guards thread th holds on YrsTransaction t's ReentrantMutex
    cell,       \* cell[t]: the Option<TransactionMut> of t: "Unborn" | "Some" | "None"
    phase,      \* phase[t]: the engine transaction: "none" | "open" | "committing" | "released"
    txnDoc,     \* txnDoc[t]: the document t was begun on (0: unborn)
    store,      \* store[d]: the transaction holding d's store write lock (0: free)
    arr,        \* arr[d]: content of d's root array "a" (sequence of Any values)
    changed,    \* changed[t]: the open transaction t modified the array (its commit fires the observers)
    borrowFlag, \* borrowFlag[f]: RefCell flag of facade f: -1 mutable, n >= 0 shared borrows
    observed,   \* observed[f]: an observer delegate is registered through facade f
    stack,      \* stack[th]: the frames of the calls thread th is inside, innermost last
    result,     \* result: outcome of the call the last step ended, and its thread (none: it ended none)
    fatal,      \* the program was terminated by a panic
    nInserted,  \* number of array inserts completed on each document (history)
    seenLen,    \* seenLen[f]: the length the running observer delegate of f has read (-1: none)
    root,       \* root[d][n]: address of the Branch of d's root collection n (0: not created)
    facAddr,    \* facAddr[f]: address of the Branch facade f wraps (0: no such facade yet)
    facKey,     \* facKey[f]: the document and the name facade f was asked for (history)
    blocks,     \* blocks[d]: the items of d's store by clock: [left, val] (left: id of the left origin)
    pend,       \* pend[d]: blocks of applied updates that wait in d's store for missing predecessors
    ord,        \* ord[d]: the ids of the items of d's root array "a" in document order
    before,     \* before[t]: the store's clock when t was begun (its before-state)
    wire,       \* the update bytes a caller holds (the last ones an encode call returned)
    sub,        \* sub[f]: the YSubscription observe returned for f: "none" | "live" | "disposed" | "dropped"
    calls,      \* the strings an each delegate was called with, in order
    origin,     \* origin[t]: the Option<Origin> of the TransactionMut of t (<<>>: None, <<bytes>>: Some)
    item        \* the key and the EntryChange a map observer was handed by the engine

facVars == <<root, facAddr, facKey>>
syncVars == <<blocks, ord, pend, before, wire>>
obsVars == <<sub, calls>>
ffiVars == <<origin, item>>

vars == <<hDoc, parentOf, docLock, txnLock, cell, phase, txnDoc, store, arr, changed, borrowFlag,
          observed, stack, result, fatal, nInserted, seenLen, facVars, syncVars, obsVars, ffiVars>>

\* ------------------------------------------------------- element values
\* An array element (yrs::Out) is a number: x > 0 is the scalar Out::Any(x), 0 a
\* nested value of no particular kind, x < 0 the value of kind (-x) % 10 (Out::YMap,
\* Out::YArray, Out::YText, Out::YDoc, Out::UndefinedRef, Out::YXml..) whose Branch has the
\* address (-x) \div 10 (0: the value has no Branch).
Kinds == <<"map", "array", "text", "doc", "undefined", "xml_element", "xml_fragment", "xml_text">>
Node(k, a) == 0 - (10 * a + k)
KindOf(x) == IF x < 0 /\ (0 - x) % 10 \in 1..Len(Kinds) THEN Kinds[(0 - x) % 10] ELSE "none"
AddrOf(x) == IF x < 0 THEN (0 - x) \div 10 ELSE 0
KindCode(k) == CHOOSE i \in 1..Len(Kinds) : Kinds[i] = k

\* ------------------------------------------------------------ JSON values
\* Any::from_json: the parsed value, or "ParseError" for a text that is not JSON.
FromJson(s) ==
    CASE s = "1" -> 1
      [] s = "2" -> 2
      [] OTHER -> -1

JsonOk(s) == FromJson(s) # -1

\* --------------------------------------------------------------- frames
Frame(op, pc, h, t, f, ix, v) ==
    [op |-> op, pc |-> pc, h |-> h, o |-> 0, t |-> t, f |-> f, ix |-> ix, v |-> v, vs |-> <<>>]
\* The frame of a call on two YrsDoc handles (self and other).
Frame2(op, pc, h, o) ==
    [op |-> op, pc |-> pc, h |-> h, o |-> o, t |-> 0, f |-> 0, ix |-> 0, v |-> "", vs |-> <<>>]
\* The frame of a call that takes a list of values.
FrameR(op, pc, t, f, ix, vs) ==
    [op |-> op, pc |-> pc, h |-> 0, o |-> 0, t |-> t, f |-> f, ix |-> ix, v |-> "", vs |-> vs]

\* The Subscription of the observer of a facade: none was made yet; n counts how
\* often its callback was unregistered.
NoSub == [st |-> "none", n |-> 0]

\* No entry change was handed over yet.
NoItem == [key |-> "", change |-> <<>>]

NoResult == [th |-> "none", op |-> "none", kind |-> "none", t |-> 0, val |-> 0, why |-> "none"]
Outcome(th, op, kind, t, val, why) ==
    [th |-> th, op |-> op, kind |-> kind, t |-> t, val |-> val, why |-> why]

Depth(th) == Len(stack[th])
Top(th) == stack[th][Len(stack[th])]
Idle(th) == stack[th] = <<>>
At(th, op, pc) == ~Idle(th) /\ Top(th).op = op /\ Top(th).pc = pc

Push(th, fr) == stack' = [stack EXCEPT ![th] = Append(@, fr)]
Pop(th) == stack' = [stack EXCEPT ![th] = SubSeq(@, 1, Len(@) - 1)]
Goto(th, pc) == stack' = [stack EXCEPT ![th][Len(stack[th])].pc = pc]

\* The document of the array a facade wraps.
ArrDoc(f) == facKey[f][1]

\* The calls the observer delegate makes: it reads the array's length through the
\* facade it observes, with the transaction that is committing.
DelegateOps == {"length"}

\* The calls the per-item delegate of each makes on the facade it iterates, with the
\* transaction of the each.
EachDelegateOps == {"length", "get", "to_a", "insert", "push_back", "remove"}

\* A thread starts a call from outside any call, or from inside a running delegate
\* (on the same thread, with the transaction the delegate was fired for or the each
\* was called with).
CanCall(th, op, t) ==
    /\ ~fatal
    /\ \/ Idle(th)
       \/ /\ ~Idle(th)
          /\ Top(th).op = "delegate"
          /\ op \in DelegateOps
          /\ t = Top(th).t
       \/ /\ ~Idle(th)
          /\ Top(th).op = "each_delegate"
          /\ op \in EachDelegateOps
          /\ t = Top(th).t

\* The step ends no call.
Silent == result' = NoResult

\* The call ended: a call made from a delegate returns into the delegate, a
\* top-level call leaves its outcome in result.
Return(th, out) ==
    /\ Pop(th)
    /\ result' = out

\* ------------------------------------------------------------- panics
\* A panic unwinds the call's frame (the guards it held are released by the step
\* that panics) and terminates the program.
PanicOut(th, op, t, why) ==
    /\ Pop(th)
    /\ result' = Outcome(th, op, "panic", t, 0, why)
    /\ fatal' = TRUE

\* ------------------------------------------------------- ReentrantMutex
\* A lock that is not reentrant: its holder cannot take it again.
CanLockExclusive(m, th) == \A o \in Threads : m[o] = 0

\* A lock that excludes nobody.
CanLockAlways(m, th) == TRUE

\* parking_lot::ReentrantMutex::lock: available when no other thread holds a guard.
CanLock(m, th) == \A o \in Threads \ {th} : m[o] = 0
Locked(m, th) == [m EXCEPT ![th] = @ + 1]
Unlocked(m, th) == [m EXCEPT ![th] = @ - 1]
Holder(m) == {th \in Threads : m[th] > 0}

Active(t) == cell[t] = "Some" /\ phase[t] \in {"open", "committing"}
Freed(t) == cell[t] = "None"
\* A YrsTransaction object exists: it was made and its last handle was not dropped.
Born(t) == cell[t] \in {"Some", "None"}

Init ==
    /\ hDoc = [h \in Handles |-> IF h = 1 THEN 1 ELSE 0]
    /\ parentOf = [d \in Docs |-> 0]
    /\ docLock = [h \in Handles |-> [th \in Threads |-> 0]]
    /\ txnLock = [t \in Txns |-> [th \in Threads |-> 0]]
    /\ cell = [t \in Txns |-> "Unborn"]
    /\ phase = [t \in Txns |-> "none"]
    /\ txnDoc = [t \in Txns |-> 0]
    /\ store = [d \in Docs |-> 0]
    /\ arr = [d \in Docs |-> <<>>]
    /\ changed = [t \in Txns |-> FALSE]
    /\ borrowFlag = [f \in Arrays |-> 0]
    /\ observed = [f \in Arrays |-> FALSE]
    /\ stack = [th \in Threads |-> <<>>]
    /\ result = NoResult
    /\ fatal = FALSE
    /\ nInserted = [d \in Docs |-> 0]
    /\ seenLen = [f \in Arrays |-> -1]
    /\ root = [d \in Docs |-> [n \in Names |-> IF d = 1 /\ n = "a" THEN 1 ELSE 0]]
    /\ facAddr = [f \in Arrays |-> IF f = 1 THEN 1 ELSE 0]
    /\ facKey = [f \in Arrays |-> IF f = 1 THEN <<1, "a">> ELSE <<0, "">>]
    /\ blocks = [d \in Docs |-> <<>>]
    /\ pend = [d \in Docs |-> <<>>]
    /\ ord = [d \in Docs |-> <<>>]
    /\ before = [t \in Txns |-> 0]
    /\ wire = <<>>
    /\ sub = [f \in Arrays |-> NoSub]
    /\ calls = <<>>
    /\ origin = [t \in Txns |-> <<>>]
    /\ item = NoItem

\* ------------------------------------------------------------- YrsDoc

Unborn == {t \in Txns : cell[t] = "Unborn"}
InTransact == {th \in Threads : ~Idle(th) /\ Top(th).op = "transact"}
\* A transact that re-arms a YrsTransaction object that was freed.
NewTxnReuse == CHOOSE t \in Txns : cell[t] # "Some" /\ \A u \in Txns : cell[u] # "Some" => t <= u

\* YrsTransaction::from: a new YrsTransaction object (the next unused one).
NewTxn == CHOOSE t \in Unborn : \A u \in Unborn : t <= u

\* ----------------------------------------------------------------- YrsOrigin
\* The bytes of an origin: u8 values.
Bytes(bs) == [i \in 1..Len(bs) |-> bs[i] % 256]
\* UniffiCustomTypeConverter::into_custom (Vec<u8> to YrsOrigin, `val.into()`) and
\* from_custom (`obj.0.to_vec()`).
IntoCustom(bs) == Bytes(bs)
FromCustom(o) == Bytes(o)
\* Into<Origin> for YrsOrigin (`Origin::from(self.0.as_ref())`) and From<Origin> for
\* YrsOrigin (`YrsOrigin(Arc::from(value.as_ref()))`): the same bytes in a new buffer.
IntoOrigin(o) == Bytes(o)
FromOrigin(o) == Bytes(o)

\* A transact that hands no origin to the engine.
TransactOriginNone(opt) == <<>>

\* `if let Some(origin) = origin { transact_mut_with(origin) } else { transact_mut() }`:
\* the origin of the TransactionMut begun for the argument opt (<<>>: None).
TransactOrigin(opt) == IF opt = <<>> THEN <<>> ELSE <<IntoOrigin(opt[1])>>

\* YrsDoc::transact called with Some(origin), the origin converted from the bytes bs
\* of the caller: `let doc = self.doc()`.
TransactDocWith(th, h, bs) ==
    /\ Silent
    /\ CanCall(th, "transact", 0)
    /\ hDoc[h] # 0
    /\ Cardinality(Unborn) > Cardinality(InTransact)
    /\ CanLock(docLock[h], th)
    /\ docLock' = [docLock EXCEPT ![h] = Locked(@, th)]
    /\ Push(th, [Frame("transact", "transact_mut", h, 0, 0, 0, "") EXCEPT !.vs = <<IntoCustom(bs)>>])
    /\ UNCHANGED <<facVars, syncVars, obsVars, ffiVars>>
    /\ UNCHANGED <<hDoc, parentOf, txnLock, cell, phase, txnDoc, store, arr, changed, borrowFlag,
                   observed, fatal, nInserted, seenLen>>

\* YrsDoc::transact called with None, `let doc = self.doc()`: takes the handle's
\* ReentrantMutex.
TransactDoc(th, h) ==
    /\ Silent
    /\ CanCall(th, "transact", 0)
    /\ hDoc[h] # 0
    /\ Cardinality(Unborn) > Cardinality(InTransact)
    /\ CanLock(docLock[h], th)
    /\ docLock' = [docLock EXCEPT ![h] = Locked(@, th)]
    /\ Push(th, Frame("transact", "transact_mut", h, 0, 0, 0, ""))
    /\ UNCHANGED <<facVars, syncVars, obsVars>>
    /\ UNCHANGED <<hDoc, parentOf, txnLock, cell, phase, txnDoc, store, arr, changed, borrowFlag,
                   observed, fatal, nInserted, seenLen>>
    /\ UNCHANGED ffiVars

\* An engine that opens a transaction without waiting for the store.
StoreFreeAlways(d) == TRUE

\* The engine's Doc::transact_mut: waits for the store's write lock.
StoreFree(d) == store[d] = 0

\* A transact over try_transact_mut().unwrap(): it panics when the store is taken.
TransactMutTry(th) ==
    /\ ~fatal
    /\ At(th, "transact", "transact_mut")
    /\ LET h == Top(th).h
           d == hDoc[h]
           t == CHOOSE u \in Txns : cell[u] = "Unborn"
       IN /\ docLock' = [docLock EXCEPT ![h] = Unlocked(@, th)]
          /\ IF store[d] = 0
             THEN /\ store' = [store EXCEPT ![d] = t]
                  /\ cell' = [cell EXCEPT ![t] = "Some"]
                  /\ phase' = [phase EXCEPT ![t] = "open"]
                  /\ txnDoc' = [txnDoc EXCEPT ![t] = d]
                  /\ origin' = [origin EXCEPT ![t] = TransactOrigin(Top(th).vs)]
                  /\ Return(th, Outcome(th, "transact", "ok", t, 0, "none"))
                  /\ UNCHANGED fatal
             ELSE /\ PanicOut(th, "transact", 0, "store_taken")
                  /\ UNCHANGED <<store, cell, phase, txnDoc, origin>>
    /\ UNCHANGED <<facVars, syncVars, obsVars>>
    /\ UNCHANGED <<hDoc, parentOf, txnLock, arr, changed, borrowFlag, observed, nInserted,
                   seenLen>>
    /\ UNCHANGED item

\* YrsDoc::transact, `doc.as_ref().transact_mut()` to the return: the engine waits
\* until the document's store has no transaction, the new TransactionMut takes the
\* store, is wrapped in a new YrsTransaction, and the DocGuard is dropped.
TransactMut(th) ==
    /\ ~fatal
    /\ At(th, "transact", "transact_mut")
    /\ LET h == Top(th).h
           d == hDoc[h]
           t == NewTxn
       IN /\ StoreFree(d)
          /\ store' = [store EXCEPT ![d] = t]
          /\ cell' = [cell EXCEPT ![t] = "Some"]
          /\ phase' = [phase EXCEPT ![t] = "open"]
          /\ txnDoc' = [txnDoc EXCEPT ![t] = d]
          /\ before' = [before EXCEPT ![t] = Len(blocks[d])]
          /\ origin' = [origin EXCEPT ![t] = TransactOrigin(Top(th).vs)]
          /\ docLock' = [docLock EXCEPT ![h] = Unlocked(@, th)]
          /\ Return(th, Outcome(th, "transact", "ok", t, 0, "none"))
    /\ UNCHANGED <<facVars, blocks, ord, pend, wire, obsVars>>
    /\ UNCHANGED <<hDoc, parentOf, txnLock, arr, changed, borrowFlag, observed, fatal, nInserted, seenLen>>
    /\ UNCHANGED item

\* ------------------------------------------------- YrsTransaction::free
\* A free that writes the Option without taking the transaction's lock.
FreeNoGuard(th, t) ==
    /\ Silent
    /\ CanCall(th, "free", t)
    /\ Born(t)
    /\ Push(th, Frame("free", "assign", 0, t, 0, 0, ""))
    /\ UNCHANGED <<facVars, syncVars, obsVars>>
    /\ UNCHANGED <<hDoc, parentOf, docLock, txnLock, cell, phase, txnDoc, store, arr, changed,
                   borrowFlag, observed, fatal, nInserted, seenLen>>
    /\ UNCHANGED ffiVars

\* `let _guard = self.0.lock()`.
FreeLock(th, t) ==
    /\ Silent
    /\ CanCall(th, "free", t)
    /\ Born(t)
    /\ CanLock(txnLock[t], th)
    /\ txnLock' = [txnLock EXCEPT ![t] = Locked(@, th)]
    /\ Push(th, Frame("free", "assign", 0, t, 0, 0, ""))
    /\ UNCHANGED <<facVars, syncVars, obsVars>>
    /\ UNCHANGED <<hDoc, parentOf, docLock, cell, phase, txnDoc, store, arr, changed, borrowFlag,
                   observed, fatal, nInserted, seenLen>>
    /\ UNCHANGED ffiVars

\* The observers the commit of t fires: those registered on an array t changed.
Fired(t) == {f \in Arrays : observed[f] /\ changed[t] /\ ArrDoc(f) = txnDoc[t]}

\* A delegate frame for the observer registered through facade f; it has read nothing.
FireObserver(th, t) ==
    LET f == CHOOSE g \in Fired(t) : TRUE
    IN /\ stack' = [stack EXCEPT ![th] =
                      Append([@ EXCEPT ![Len(@)].pc = "drop"], Frame("delegate", "run", 0, t, f, 0, ""))]
       /\ seenLen' = [seenLen EXCEPT ![f] = -1]

\* A free that takes the value out of the Option first (None is written before the
\* old value is dropped): the observers then run over a None.
FreeCommitTaken(th, t) ==
    /\ phase' = [phase EXCEPT ![t] = "committing"]
    /\ cell' = [cell EXCEPT ![t] = "None"]
    /\ IF Fired(t) # {}
       THEN FireObserver(th, t)
       ELSE Goto(th, "drop") /\ UNCHANGED seenLen
    /\ Silent
    /\ UNCHANGED <<txnLock, fatal>>
    /\ UNCHANGED ffiVars

\* `*ptr = None` over Some, first half: the old value is dropped in place.  Dropping
\* an open TransactionMut commits it, and the commit calls the observers' delegates
\* on this thread while the Option still reads Some.
FreeCommit(th, t) ==
    /\ phase' = [phase EXCEPT ![t] = "committing"]
    /\ IF Fired(t) # {}
       THEN FireObserver(th, t)
       ELSE Goto(th, "drop") /\ UNCHANGED seenLen
    /\ Silent
    /\ UNCHANGED <<txnLock, cell, fatal>>
    /\ UNCHANGED ffiVars

\* A free that expects an open transaction (`take().unwrap()`): it panics over None.
FreeOverNoneUnwraps(th, t) ==
    /\ txnLock' = [txnLock EXCEPT ![t] = Unlocked(@, th)]
    /\ PanicOut(th, "free", t, "unwrap_none")
    /\ UNCHANGED <<cell, phase, seenLen>>
    /\ UNCHANGED ffiVars

\* `*ptr = None` over None: there is nothing to drop; None is written and `_guard`
\* is dropped.
FreeOverNone(th, t) ==
    /\ txnLock' = [txnLock EXCEPT ![t] = Unlocked(@, th)]
    /\ cell' = [cell EXCEPT ![t] = "None"]
    /\ Return(th, Outcome(th, "free", "ok", t, 0, "noop"))
    /\ UNCHANGED <<phase, seenLen, fatal>>
    /\ UNCHANGED ffiVars

\* `*ptr = None` over a Some whose value is being dropped by a free further down the
\* stack (this free was called from a delegate the commit fired): the Option still
\* reads Some, so the assignment drops the TransactionMut a second time, in the
\* middle of its first drop.  That is undefined behaviour; the build either runs
\* the second drop to its end (the engine's commit returns at once on its committed
\* flag, the fields are dropped, which gives the store back, None is written and
\* `_guard` dropped) or crashes in it.
FreeDropAgain(th, t) ==
    /\ txnLock' = [txnLock EXCEPT ![t] = Unlocked(@, th)]
    /\ \/ /\ phase' = [phase EXCEPT ![t] = "released"]
          /\ cell' = [cell EXCEPT ![t] = "None"]
          /\ Return(th, Outcome(th, "free", "ok", t, 0, "dropped_twice"))
          /\ UNCHANGED fatal
       \/ /\ PanicOut(th, "free", t, "double_drop")
          /\ UNCHANGED <<cell, phase>>
    /\ UNCHANGED seenLen
    /\ UNCHANGED ffiVars

\* YrsTransaction::free, `unsafe { *(*self.0.data_ptr()).get() = None }`.
FreeAssign(th) ==
    /\ ~fatal
    /\ At(th, "free", "assign")
    /\ LET t == Top(th).t
       IN IF cell[t] = "Some"
          THEN (IF phase[t] = "open" THEN FreeCommit(th, t) ELSE FreeDropAgain(th, t))
          ELSE FreeOverNone(th, t)
    /\ UNCHANGED <<facVars, syncVars, obsVars>>
    /\ UNCHANGED <<hDoc, parentOf, docLock, txnDoc, store, arr, changed, borrowFlag, observed,
                   nInserted>>
    /\ UNCHANGED ffiVars

\* A drop that discards what the transaction wrote instead of committing it.
FreeDropRollback(th) ==
    /\ ~fatal
    /\ At(th, "free", "drop")
    /\ LET t == Top(th).t
           d == txnDoc[t]
       IN /\ store' = [store EXCEPT ![d] = IF @ = t THEN 0 ELSE @]
          /\ arr' = [arr EXCEPT ![d] = <<>>]
          /\ phase' = [phase EXCEPT ![t] = "released"]
          /\ changed' = [changed EXCEPT ![t] = FALSE]
          /\ Goto(th, "write")
    /\ Silent
    /\ UNCHANGED <<facVars, syncVars, obsVars>>
    /\ UNCHANGED <<hDoc, parentOf, docLock, txnLock, cell, txnDoc, borrowFlag, observed,
                   fatal, nInserted, seenLen>>
    /\ UNCHANGED ffiVars

\* `*ptr = None`, the drop ends: the committed TransactionMut gives the store back.
FreeDrop(th) ==
    /\ Silent
    /\ ~fatal
    /\ At(th, "free", "drop")
    /\ LET t == Top(th).t
           d == txnDoc[t]
       IN /\ store' = [store EXCEPT ![d] = IF @ = t THEN 0 ELSE @]
          /\ phase' = [phase EXCEPT ![t] = "released"]
          /\ changed' = [changed EXCEPT ![t] = FALSE]
          /\ Goto(th, "write")
    /\ UNCHANGED <<facVars, syncVars, obsVars>>
    /\ UNCHANGED <<hDoc, parentOf, docLock, txnLock, cell, txnDoc, arr, borrowFlag, observed,
                   fatal, nInserted, seenLen>>
    /\ UNCHANGED ffiVars

\* `*ptr = None`, second half: None is written; then `_guard` is dropped.
FreeWrite(th) ==
    /\ ~fatal
    /\ At(th, "free", "write")
    /\ LET t == Top(th).t
       IN /\ cell' = [cell EXCEPT ![t] = "None"]
          /\ txnLock' = [txnLock EXCEPT ![t] = Unlocked(@, th)]
          /\ Return(th, Outcome(th, "free", "ok", t, 0, "freed"))
    /\ UNCHANGED <<facVars, syncVars, obsVars>>
    /\ UNCHANGED <<hDoc, parentOf, docLock, phase, txnDoc, store, arr, changed, borrowFlag, observed,
                   fatal, nInserted, seenLen>>
    /\ UNCHANGED ffiVars

\* The calls in progress that were given transaction t.
UsedBy(t) == {th \in Threads : \E i \in 1..Depth(th) : stack[th][i].t = t}

\* A drop of the last handle that forgets the TransactionMut instead of dropping it.
DropTxnLeaks(th, t) ==
    /\ ~fatal
    /\ Idle(th)
    /\ Born(t)
    /\ UsedBy(t) = {}
    /\ cell' = [cell EXCEPT ![t] = "Dropped"]
    /\ result' = Outcome(th, "drop_txn", "ok", t, 0, IF cell[t] = "Some" THEN "committed" ELSE "noop")
    /\ UNCHANGED <<facVars, syncVars, obsVars>>
    /\ UNCHANGED <<hDoc, parentOf, docLock, txnLock, phase, txnDoc, store, arr, changed,
                   borrowFlag, observed, stack, fatal, nInserted, seenLen>>
    /\ UNCHANGED ffiVars

\* The last Arc<YrsTransaction> is dropped without free (no call is using the
\* transaction): the struct has no Drop of its own, so its field is dropped; an
\* Option that is still Some drops its TransactionMut, which commits and gives the
\* store back, as in free.  The delegates the commit fires cannot reach the dropped
\* handle; they return within the step.
DropTxn(th, t) ==
    /\ ~fatal
    /\ Idle(th)
    /\ Born(t)
    /\ UsedBy(t) = {}
    /\ cell' = [cell EXCEPT ![t] = "Dropped"]
    /\ store' = [store EXCEPT ![txnDoc[t]] = IF @ = t THEN 0 ELSE @]
    /\ phase' = [phase EXCEPT ![t] = "released"]
    /\ changed' = [changed EXCEPT ![t] = FALSE]
    /\ result' = Outcome(th, "drop_txn", "ok", t, 0, IF cell[t] = "Some" THEN "committed" ELSE "noop")
    /\ UNCHANGED <<facVars, syncVars, obsVars>>
    /\ UNCHANGED <<hDoc, parentOf, docLock, txnLock, txnDoc, arr, borrowFlag, observed, stack,
                   fatal, nInserted, seenLen>>
    /\ UNCHANGED ffiVars

\* The observer closure returns (`delegate.call(result)` is over).
DelegateReturn(th) ==
    /\ Silent
    /\ ~fatal
    /\ At(th, "delegate", "run")
    /\ Pop(th)
    /\ seenLen' = [seenLen EXCEPT ![Top(th).f] = -1]
    /\ UNCHANGED <<facVars, syncVars, obsVars>>
    /\ UNCHANGED <<hDoc, parentOf, docLock, txnLock, cell, phase, txnDoc, store, arr, changed, borrowFlag,
                   observed, fatal, nInserted>>
    /\ UNCHANGED ffiVars

\* YrsTransaction::free called by the running observer delegate, on this thread, with
\* the transaction whose commit fired it: `let _guard = self.0.lock()` re-enters the
\* ReentrantMutex the free that is committing holds.
FreeReenter(th) ==
    /\ Silent
    /\ ~fatal
    /\ At(th, "delegate", "run")
    /\ CanLock(txnLock[Top(th).t], th)
    /\ txnLock' = [txnLock EXCEPT ![Top(th).t] = Locked(@, th)]
    /\ Push(th, Frame("free", "assign", 0, Top(th).t, 0, 0, ""))
    /\ UNCHANGED <<facVars, syncVars, obsVars, ffiVars>>
    /\ UNCHANGED <<hDoc, parentOf, docLock, cell, phase, txnDoc, store, arr, changed, borrowFlag,
                   observed, fatal, nInserted, seenLen>>

\* The frames of th that are running observer delegates.
DelegateFrames(th) == {i \in 1..Depth(th) : stack[th][i].op = "delegate"}

\* ------------------------------------------------------------- YrsArray
\* An insert that changes a private copy of the array and leaves the shared one.
InsertAtCopy(s, ix, x) == s

\* The sequence s with x inserted before index ix (counted from 0).
InsertAt(s, ix, x) == SubSeq(s, 1, ix) \o <<x>> \o SubSeq(s, ix + 1, Len(s))

\* An insert of a list that puts each value in turn at the same index, which leaves
\* the values in reverse order.
InsertAllBackwards(s, ix, xs) ==
    SubSeq(s, 1, ix) \o [i \in 1..Len(xs) |-> xs[Len(xs) + 1 - i]] \o SubSeq(s, ix + 1, Len(s))

\* The sequence s with the values xs inserted, in their order, before index ix.
InsertAll(s, ix, xs) == SubSeq(s, 1, ix) \o xs \o SubSeq(s, ix + 1, Len(s))

\* The engine's insert of the values xs at index ix of d's array: each value becomes
\* an item with the next clock as its id; the left origin of the first is the item
\* now before the index (0: none), the left origin of every other the item before it.
NewItems(d, ix, xs) ==
    [i \in 1..Len(xs) |->
        [left |-> IF i > 1 THEN Len(blocks[d]) + i - 1
                  ELSE IF ix = 0 THEN 0 ELSE ord[d][ix],
         val |-> xs[i]]]
NewIds(d, xs) == [i \in 1..Len(xs) |-> Len(blocks[d]) + i]

InInsert == {th \in Threads : ~Idle(th) /\ Top(th).op = "insert"}
InRange == {th \in Threads : ~Idle(th) /\ Top(th).op = "insert_range"}
InPush == {th \in Threads : \E i \in 1..Depth(th) : stack[th][i].op \in {"push_back", "insert_nested"}}
\* Elements the inserts that are under way may still add to the array.
Incoming == Cardinality(InInsert) + 2 * Cardinality(InRange) + Cardinality(InPush)

\* YrsArray::length, `let arr = self.0.borrow()`: RefCell::borrow panics while the
\* facade is mutably borrowed.
LengthBorrow(th, f, t) ==
    /\ CanCall(th, "length", t)
    /\ Born(t)
    /\ facAddr[f] # 0
    /\ IF borrowFlag[f] < 0
       THEN /\ result' = Outcome(th, "length", "panic", t, 0, "borrow")
            /\ fatal' = TRUE
            /\ UNCHANGED <<borrowFlag, stack>>
       ELSE /\ borrowFlag' = [borrowFlag EXCEPT ![f] = @ + 1]
            /\ Push(th, Frame("length", "lock", 0, t, f, 0, ""))
            /\ Silent
            /\ UNCHANGED fatal
    /\ UNCHANGED <<facVars, syncVars, obsVars>>
    /\ UNCHANGED <<hDoc, parentOf, docLock, txnLock, cell, phase, txnDoc, store, arr, changed, observed,
                   nInserted, seenLen>>
    /\ UNCHANGED ffiVars

\* YrsArray::length, `let tx = transaction.transaction()`.
LengthLock(th) ==
    /\ Silent
    /\ ~fatal
    /\ At(th, "length", "lock")
    /\ CanLock(txnLock[Top(th).t], th)
    /\ txnLock' = [txnLock EXCEPT ![Top(th).t] = Locked(@, th)]
    /\ Goto(th, "len")
    /\ UNCHANGED <<facVars, syncVars, obsVars>>
    /\ UNCHANGED <<hDoc, parentOf, docLock, cell, phase, txnDoc, store, arr, changed, borrowFlag, observed,
                   fatal, nInserted, seenLen>>
    /\ UNCHANGED ffiVars

FromDelegate(th) == Depth(th) > 1 /\ stack[th][Depth(th) - 1].op = "delegate"

\* YrsArray::length, `tx.as_ref().unwrap()` and `arr.len(tx)`, then both guards drop.
LengthLen(th) ==
    /\ ~fatal
    /\ At(th, "length", "len")
    /\ LET t == Top(th).t
           f == Top(th).f
           n == Len(arr[ArrDoc(f)])
       IN /\ txnLock' = [txnLock EXCEPT ![t] = Unlocked(@, th)]
          /\ borrowFlag' = [borrowFlag EXCEPT ![f] = @ - 1]
          /\ IF cell[t] = "Some"
             THEN /\ Return(th, Outcome(th, "length", "ok", t, n, "none"))
                  /\ seenLen' = IF FromDelegate(th) THEN [seenLen EXCEPT ![f] = n] ELSE seenLen
                  /\ UNCHANGED fatal
             ELSE /\ PanicOut(th, "length", t, "unwrap_none")
                  /\ UNCHANGED seenLen
    /\ UNCHANGED <<facVars, syncVars, obsVars>>
    /\ UNCHANGED <<hDoc, parentOf, docLock, cell, phase, txnDoc, store, arr, changed, observed, nInserted>>
    /\ UNCHANGED ffiVars

\* YrsArray::insert, `Any::from_json(value.as_str()).unwrap()`.
InsertParse(th, f, t, ix, v) ==
    /\ CanCall(th, "insert", t)
    /\ Born(t)
    /\ facAddr[f] # 0
    /\ Len(arr[ArrDoc(f)]) + Incoming < MaxLen
    /\ IF JsonOk(v)
       THEN /\ Push(th, Frame("insert", "lock", 0, t, f, ix, v))
            /\ Silent
            /\ UNCHANGED fatal
       ELSE /\ result' = Outcome(th, "insert", "panic", t, 0, "json")
            /\ fatal' = TRUE
            /\ UNCHANGED stack
    /\ UNCHANGED <<facVars, syncVars, obsVars>>
    /\ UNCHANGED <<hDoc, parentOf, docLock, txnLock, cell, phase, txnDoc, store, arr, changed, borrowFlag,
                   observed, nInserted, seenLen>>
    /\ UNCHANGED ffiVars

\* YrsArray::insert, `let mut tx = transaction.transaction()`.
InsertLock(th) ==
    /\ Silent
    /\ ~fatal
    /\ At(th, "insert", "lock")
    /\ CanLock(txnLock[Top(th).t], th)
    /\ txnLock' = [txnLock EXCEPT ![Top(th).t] = Locked(@, th)]
    /\ Goto(th, "borrow")
    /\ UNCHANGED <<facVars, syncVars, obsVars>>
    /\ UNCHANGED <<hDoc, parentOf, docLock, cell, phase, txnDoc, store, arr, changed, borrowFlag, observed,
                   fatal, nInserted, seenLen>>
    /\ UNCHANGED ffiVars

\* YrsArray::insert, `tx.as_mut().unwrap()` and `self.0.borrow_mut()`.
InsertBorrow(th) ==
    /\ ~fatal
    /\ At(th, "insert", "borrow")
    /\ LET t == Top(th).t
           f == Top(th).f
       IN IF cell[t] # "Some"
          THEN /\ txnLock' = [txnLock EXCEPT ![t] = Unlocked(@, th)]
               /\ PanicOut(th, "insert", t, "unwrap_none")
               /\ UNCHANGED borrowFlag
          ELSE IF borrowFlag[f] # 0
          THEN /\ txnLock' = [txnLock EXCEPT ![t] = Unlocked(@, th)]
               /\ PanicOut(th, "insert", t, "borrow")
               /\ UNCHANGED borrowFlag
          ELSE /\ borrowFlag' = [borrowFlag EXCEPT ![f] = -1]
               /\ Goto(th, "apply")
               /\ Silent
               /\ UNCHANGED <<txnLock, fatal>>
    /\ UNCHANGED <<facVars, syncVars, obsVars>>
    /\ UNCHANGED <<hDoc, parentOf, docLock, cell, phase, txnDoc, store, arr, changed, observed, nInserted,
                   seenLen>>
    /\ UNCHANGED ffiVars

\* YrsArray::insert, `arr.insert(tx, index, avalue)` (the engine panics on an index
\* past the end), then both guards drop.
InsertApply(th) ==
    /\ ~fatal
    /\ At(th, "insert", "apply")
    /\ LET t == Top(th).t
           f == Top(th).f
           d == ArrDoc(f)
           ix == Top(th).ix
       IN /\ txnLock' = [txnLock EXCEPT ![t] = Unlocked(@, th)]
          /\ borrowFlag' = [borrowFlag EXCEPT ![f] = 0]
          /\ IF ix <= Len(arr[d])
             THEN /\ arr' = [arr EXCEPT ![d] = InsertAt(@, ix, FromJson(Top(th).v))]
                  /\ blocks' = [blocks EXCEPT ![d] = @ \o NewItems(d, ix, <<FromJson(Top(th).v)>>)]
                  /\ ord' = [ord EXCEPT ![d] = InsertAll(@, ix, NewIds(d, <<1>>))]
                  /\ changed' = [changed EXCEPT ![t] = TRUE]
                  /\ nInserted' = [nInserted EXCEPT ![d] = @ + 1]
                  /\ Return(th, Outcome(th, "insert", "ok", t, 0, "none"))
                  /\ UNCHANGED fatal
             ELSE /\ PanicOut(th, "insert", t, "index")
                  /\ UNCHANGED <<arr, changed, nInserted, blocks, ord>>
    /\ UNCHANGED <<facVars, pend, before, wire, obsVars>>
    /\ UNCHANGED <<hDoc, parentOf, docLock, cell, phase, txnDoc, store, observed, seenLen>>
    /\ UNCHANGED ffiVars

\* ------------------------------------------------------ YrsArray::push_back
\* YrsArray::push_back, `Any::from_json(value.as_str()).unwrap()`.
PushParse(th, f, t, v) ==
    /\ CanCall(th, "push_back", t)
    /\ Born(t)
    /\ facAddr[f] # 0
    /\ Len(arr[ArrDoc(f)]) + Incoming < MaxLen
    /\ IF JsonOk(v)
       THEN /\ Push(th, Frame("push_back", "lock", 0, t, f, 0, v))
            /\ Silent
            /\ UNCHANGED fatal
       ELSE /\ result' = Outcome(th, "push_back", "panic", t, 0, "json")
            /\ fatal' = TRUE
            /\ UNCHANGED stack
    /\ UNCHANGED <<facVars, syncVars, obsVars>>
    /\ UNCHANGED <<hDoc, parentOf, docLock, txnLock, cell, phase, txnDoc, store, arr, changed, borrowFlag,
                   observed, nInserted, seenLen>>
    /\ UNCHANGED ffiVars

\* YrsArray::push_back, `let mut tx = transaction.transaction()`.
PushLock(th) ==
    /\ Silent
    /\ ~fatal
    /\ At(th, "push_back", "lock")
    /\ CanLock(txnLock[Top(th).t], th)
    /\ txnLock' = [txnLock EXCEPT ![Top(th).t] = Locked(@, th)]
    /\ Goto(th, "unwrap")
    /\ UNCHANGED <<facVars, syncVars, obsVars>>
    /\ UNCHANGED <<hDoc, parentOf, docLock, cell, phase, txnDoc, store, arr, changed, borrowFlag,
                   observed, fatal, nInserted, seenLen>>
    /\ UNCHANGED ffiVars

\* YrsArray::push_back, `tx.as_mut().unwrap()`: panics on a freed transaction.
PushUnwrap(th) ==
    /\ ~fatal
    /\ At(th, "push_back", "unwrap")
    /\ IF cell[Top(th).t] = "Some"
       THEN /\ Goto(th, "apply")
            /\ Silent
            /\ UNCHANGED <<txnLock, fatal>>
       ELSE /\ txnLock' = [txnLock EXCEPT ![Top(th).t] = Unlocked(@, th)]
            /\ PanicOut(th, "push_back", Top(th).t, "unwrap_none")
    /\ UNCHANGED <<facVars, syncVars, obsVars>>
    /\ UNCHANGED <<hDoc, parentOf, docLock, cell, phase, txnDoc, store, arr, changed, borrowFlag,
                   observed, nInserted, seenLen>>
    /\ UNCHANGED ffiVars

\* YrsArray::push_back, `self.0.borrow_mut().push_back(tx, avalue)`: the mutable
\* borrow lasts for the statement (it panics while the facade is borrowed), the value
\* becomes the last element, then the guard drops.
PushApply(th) ==
    /\ ~fatal
    /\ At(th, "push_back", "apply")
    /\ LET t == Top(th).t
           f == Top(th).f
           d == ArrDoc(f)
           x == FromJson(Top(th).v)
       IN /\ txnLock' = [txnLock EXCEPT ![t] = Unlocked(@, th)]
          /\ IF borrowFlag[f] = 0
             THEN /\ arr' = [arr EXCEPT ![d] = InsertAt(@, Len(@), x)]
                  /\ blocks' = [blocks EXCEPT ![d] = @ \o NewItems(d, Len(arr[d]), <<x>>)]
                  /\ ord' = [ord EXCEPT ![d] = InsertAll(@, Len(@), NewIds(d, <<x>>))]
                  /\ changed' = [changed EXCEPT ![t] = TRUE]
                  /\ nInserted' = [nInserted EXCEPT ![d] = @ + 1]
                  /\ Return(th, Outcome(th, "push_back", "ok", t, 0, "none"))
                  /\ UNCHANGED fatal
             ELSE /\ PanicOut(th, "push_back", t, "borrow")
                  /\ UNCHANGED <<arr, changed, nInserted, blocks, ord>>
    /\ UNCHANGED <<facVars, pend, before, wire, obsVars>>
    /\ UNCHANGED <<hDoc, parentOf, docLock, cell, phase, txnDoc, store, borrowFlag, observed, seenLen>>
    /\ UNCHANGED ffiVars

\* --------------------------------------------------- YrsArray::insert_range
\* YrsArray::insert_range, `let arr = self.0.borrow_mut()`: taken before the
\* transaction's lock; RefCell::borrow_mut panics while the facade is borrowed.
RangeBorrow(th, f, t, ix, vs) ==
    /\ CanCall(th, "insert_range", t)
    /\ Born(t)
    /\ facAddr[f] # 0
    /\ Len(arr[ArrDoc(f)]) + Incoming + Len(vs) <= MaxLen
    /\ IF borrowFlag[f] # 0
       THEN /\ result' = Outcome(th, "insert_range", "panic", t, 0, "borrow")
            /\ fatal' = TRUE
            /\ UNCHANGED <<borrowFlag, stack>>
       ELSE /\ borrowFlag' = [borrowFlag EXCEPT ![f] = -1]
            /\ Push(th, FrameR("insert_range", "lock", t, f, ix, vs))
            /\ Silent
            /\ UNCHANGED fatal
    /\ UNCHANGED <<facVars, syncVars, obsVars>>
    /\ UNCHANGED <<hDoc, parentOf, docLock, txnLock, cell, phase, txnDoc, store, arr, changed,
                   observed, nInserted, seenLen>>
    /\ UNCHANGED ffiVars

\* YrsArray::insert_range, `let mut tx = transaction.transaction()`.
RangeLock(th) ==
    /\ Silent
    /\ ~fatal
    /\ At(th, "insert_range", "lock")
    /\ CanLock(txnLock[Top(th).t], th)
    /\ txnLock' = [txnLock EXCEPT ![Top(th).t] = Locked(@, th)]
    /\ Goto(th, "parse")
    /\ UNCHANGED <<facVars, syncVars, obsVars>>
    /\ UNCHANGED <<hDoc, parentOf, docLock, cell, phase, txnDoc, store, arr, changed, borrowFlag,
                   observed, fatal, nInserted, seenLen>>
    /\ UNCHANGED ffiVars

\* An insert_range whose failing parse leaves the transaction locked and the facade
\* borrowed.
RangeParseLeaks(th) ==
    /\ ~fatal
    /\ At(th, "insert_range", "parse")
    /\ LET t == Top(th).t
           f == Top(th).f
           vs == Top(th).vs
       IN IF cell[t] # "Some"
          THEN /\ txnLock' = [txnLock EXCEPT ![t] = Unlocked(@, th)]
               /\ borrowFlag' = [borrowFlag EXCEPT ![f] = 0]
               /\ PanicOut(th, "insert_range", t, "unwrap_none")
          ELSE IF \E i \in 1..Len(vs) : ~JsonOk(vs[i])
          THEN /\ PanicOut(th, "insert_range", t, "json")
               /\ UNCHANGED <<txnLock, borrowFlag>>
          ELSE /\ Goto(th, "apply")
               /\ Silent
               /\ UNCHANGED <<txnLock, borrowFlag, fatal>>
    /\ UNCHANGED <<facVars, syncVars, obsVars>>
    /\ UNCHANGED <<hDoc, parentOf, docLock, cell, phase, txnDoc, store, arr, changed, observed,
                   nInserted, seenLen>>
    /\ UNCHANGED ffiVars

\* YrsArray::insert_range, `tx.as_mut().unwrap()` and the parse of every value
\* (`Any::from_json(..).unwrap()` in the map over the values): a panic in either
\* drops the guard and the borrow.
RangeParse(th) ==
    /\ ~fatal
    /\ At(th, "insert_range", "parse")
    /\ LET t == Top(th).t
           f == Top(th).f
           vs == Top(th).vs
       IN IF cell[t] # "Some"
          THEN /\ txnLock' = [txnLock EXCEPT ![t] = Unlocked(@, th)]
               /\ borrowFlag' = [borrowFlag EXCEPT ![f] = 0]
               /\ PanicOut(th, "insert_range", t, "unwrap_none")
          ELSE IF \E i \in 1..Len(vs) : ~JsonOk(vs[i])
          THEN /\ txnLock' = [txnLock EXCEPT ![t] = Unlocked(@, th)]
               /\ borrowFlag' = [borrowFlag EXCEPT ![f] = 0]
               /\ PanicOut(th, "insert_range", t, "json")
          ELSE /\ Goto(th, "apply")
               /\ Silent
               /\ UNCHANGED <<txnLock, borrowFlag, fatal>>
    /\ UNCHANGED <<facVars, syncVars, obsVars>>
    /\ UNCHANGED <<hDoc, parentOf, docLock, cell, phase, txnDoc, store, arr, changed, observed,
                   nInserted, seenLen>>
    /\ UNCHANGED ffiVars

\* YrsArray::insert_range, `arr.insert_range(tx, index, add_values)` (the engine
\* panics on an index past the end), then the guard and the borrow drop.
RangeApply(th) ==
    /\ ~fatal
    /\ At(th, "insert_range", "apply")
    /\ LET t == Top(th).t
           f == Top(th).f
           d == ArrDoc(f)
           ix == Top(th).ix
           xs == [i \in 1..Len(Top(th).vs) |-> FromJson(Top(th).vs[i])]
       IN /\ txnLock' = [txnLock EXCEPT ![t] = Unlocked(@, th)]
          /\ borrowFlag' = [borrowFlag EXCEPT ![f] = 0]
          /\ IF ix <= Len(arr[d])
             THEN /\ arr' = [arr EXCEPT ![d] = InsertAll(@, ix, xs)]
                  /\ blocks' = [blocks EXCEPT ![d] = @ \o NewItems(d, ix, xs)]
                  /\ ord' = [ord EXCEPT ![d] = InsertAll(@, ix, NewIds(d, xs))]
                  /\ changed' = [changed EXCEPT ![t] = TRUE]
                  /\ nInserted' = [nInserted EXCEPT ![d] = @ + Len(xs)]
                  /\ Return(th, Outcome(th, "insert_range", "ok", t, 0, "none"))
                  /\ UNCHANGED fatal
             ELSE /\ PanicOut(th, "insert_range", t, "index")
                  /\ UNCHANGED <<arr, changed, nInserted, blocks, ord>>
    /\ UNCHANGED <<facVars, pend, before, wire, obsVars>>
    /\ UNCHANGED <<hDoc, parentOf, docLock, cell, phase, txnDoc, store, observed, seenLen>>
    /\ UNCHANGED ffiVars

\* ----------------------------------------------------------- YrsArray::to_a
\* An entry that is a plain value (Out::Any); 0 stands for an entry that holds a
\* nested collection.
IsAny(x) == x > 0
\* Any::to_json of a number.
ToJson(x) ==
    CASE x = 1 -> "1"
      [] x = 2 -> "2"
      [] OTHER -> "null"

RECURSIVE SelectAny(_)
\* The JSON texts of the plain values of a sequence of entries, in order.
SelectAny(xs) ==
    IF xs = <<>> THEN <<>>
    ELSE (IF IsAny(Head(xs)) THEN <<ToJson(Head(xs))>> ELSE <<>>) \o SelectAny(Tail(xs))

\* YrsArray::to_a, `let arr = self.0.borrow()`.
ToABorrow(th, f, t) ==
    /\ CanCall(th, "to_a", t)
    /\ Born(t)
    /\ facAddr[f] # 0
    /\ IF borrowFlag[f] < 0
       THEN /\ result' = Outcome(th, "to_a", "panic", t, 0, "borrow")
            /\ fatal' = TRUE
            /\ UNCHANGED <<borrowFlag, stack>>
       ELSE /\ borrowFlag' = [borrowFlag EXCEPT ![f] = @ + 1]
            /\ Push(th, Frame("to_a", "lock", 0, t, f, 0, ""))
            /\ Silent
            /\ UNCHANGED fatal
    /\ UNCHANGED <<facVars, syncVars, obsVars>>
    /\ UNCHANGED <<hDoc, parentOf, docLock, txnLock, cell, phase, txnDoc, store, arr, changed,
                   observed, nInserted, seenLen>>
    /\ UNCHANGED ffiVars

\* YrsArray::to_a, `let tx = transaction.transaction()`.
ToALock(th) ==
    /\ Silent
    /\ ~fatal
    /\ At(th, "to_a", "lock")
    /\ CanLock(txnLock[Top(th).t], th)
    /\ txnLock' = [txnLock EXCEPT ![Top(th).t] = Locked(@, th)]
    /\ Goto(th, "collect")
    /\ UNCHANGED <<facVars, syncVars, obsVars>>
    /\ UNCHANGED <<hDoc, parentOf, docLock, cell, phase, txnDoc, store, arr, changed, borrowFlag,
                   observed, fatal, nInserted, seenLen>>
    /\ UNCHANGED ffiVars

\* YrsArray::to_a, `tx.as_ref().unwrap()` and the filter_map over `arr.iter(tx)`,
\* then both guards drop.
ToACollect(th) ==
    /\ ~fatal
    /\ At(th, "to_a", "collect")
    /\ LET t == Top(th).t
           f == Top(th).f
       IN /\ txnLock' = [txnLock EXCEPT ![t] = Unlocked(@, th)]
          /\ borrowFlag' = [borrowFlag EXCEPT ![f] = @ - 1]
          /\ IF cell[t] = "Some"
             THEN /\ Return(th, Outcome(th, "to_a", "ok", t, SelectAny(arr[ArrDoc(f)]), "none"))
                  /\ UNCHANGED fatal
             ELSE PanicOut(th, "to_a", t, "unwrap_none")
    /\ UNCHANGED <<facVars, syncVars, obsVars>>
    /\ UNCHANGED <<hDoc, parentOf, docLock, cell, phase, txnDoc, store, arr, changed, observed,
                   nInserted, seenLen>>
    /\ UNCHANGED ffiVars

\* YrsArray::each, `let tx = transaction.transaction()`.
EachLock(th, f, t) ==
    /\ Silent
    /\ CanCall(th, "each", t)
    /\ Born(t)
    /\ facAddr[f] # 0
    /\ CanLock(txnLock[t], th)
    /\ txnLock' = [txnLock EXCEPT ![t] = Locked(@, th)]
    /\ Push(th, Frame("each", "unwrap", 0, t, f, 0, ""))
    /\ UNCHANGED <<facVars, syncVars, obsVars>>
    /\ UNCHANGED <<hDoc, parentOf, docLock, cell, phase, txnDoc, store, arr, changed, borrowFlag,
                   observed, fatal, nInserted, seenLen>>
    /\ UNCHANGED ffiVars

\* YrsArray::each, `tx.as_ref().unwrap()`: panics on a freed transaction.
EachUnwrap(th) ==
    /\ ~fatal
    /\ At(th, "each", "unwrap")
    /\ IF cell[Top(th).t] = "Some"
       THEN /\ Goto(th, "borrow")
            /\ Silent
            /\ UNCHANGED <<txnLock, fatal>>
       ELSE /\ txnLock' = [txnLock EXCEPT ![Top(th).t] = Unlocked(@, th)]
            /\ PanicOut(th, "each", Top(th).t, "unwrap_none")
    /\ UNCHANGED <<facVars, syncVars, obsVars>>
    /\ UNCHANGED <<hDoc, parentOf, docLock, cell, phase, txnDoc, store, arr, changed, borrowFlag,
                   observed, nInserted, seenLen>>
    /\ UNCHANGED ffiVars

\* YrsArray::each, `let arr = self.0.borrow()`; the iteration starts with no call made.
EachBorrow(th) ==
    /\ ~fatal
    /\ At(th, "each", "borrow")
    /\ IF borrowFlag[Top(th).f] < 0
       THEN /\ txnLock' = [txnLock EXCEPT ![Top(th).t] = Unlocked(@, th)]
            /\ PanicOut(th, "each", Top(th).t, "borrow")
            /\ UNCHANGED <<borrowFlag, calls>>
       ELSE /\ borrowFlag' = [borrowFlag EXCEPT ![Top(th).f] = @ + 1]
            /\ calls' = <<>>
            /\ Goto(th, "iter")
            /\ Silent
            /\ UNCHANGED <<txnLock, fatal>>
    /\ UNCHANGED <<facVars, syncVars, sub>>
    /\ UNCHANGED <<hDoc, parentOf, docLock, cell, phase, txnDoc, store, arr, changed, observed,
                   nInserted, seenLen>>
    /\ UNCHANGED ffiVars

\* The string each passes to its delegate for an entry: the JSON of an Out::Any, the
\* empty buffer for every other entry.
EachArg(x) == IF IsAny(x) THEN ToJson(x) ELSE ""

\* YrsArray::each, one turn of `arr.iter(tx).for_each`: `delegate.call(buf)` is made
\* in both branches of the `if let Out::Any(any) = val`.
EachCall(th) ==
    /\ ~fatal
    /\ At(th, "each", "iter")
    /\ Top(th).ix < Len(arr[ArrDoc(Top(th).f)])
    /\ calls' = Append(calls, EachArg(arr[ArrDoc(Top(th).f)][Top(th).ix + 1]))
    /\ stack' = [stack EXCEPT ![th][Len(stack[th])].ix = @ + 1]
    /\ Silent
    /\ UNCHANGED <<facVars, syncVars, sub>>
    /\ UNCHANGED <<hDoc, parentOf, docLock, txnLock, cell, phase, txnDoc, store, arr, changed,
                   borrowFlag, observed, fatal, nInserted, seenLen>>
    /\ UNCHANGED ffiVars

\* One turn of the for_each as EachCall, seen from inside: `delegate.call(buf)` enters
\* the delegate of the caller, which runs on this thread while each holds the
\* transaction's guard and the facade's shared borrow.
EachEnter(th) ==
    /\ ~fatal
    /\ At(th, "each", "iter")
    /\ Top(th).ix < Len(arr[ArrDoc(Top(th).f)])
    /\ calls' = Append(calls, EachArg(arr[ArrDoc(Top(th).f)][Top(th).ix + 1]))
    /\ stack' = [stack EXCEPT ![th] =
                    Append([@ EXCEPT ![Len(@)].ix = @ + 1],
                           Frame("each_delegate", "run", 0, Top(th).t, Top(th).f, 0, ""))]
    /\ Silent
    /\ UNCHANGED <<facVars, syncVars, sub, ffiVars>>
    /\ UNCHANGED <<hDoc, parentOf, docLock, txnLock, cell, phase, txnDoc, store, arr, changed,
                   borrowFlag, observed, fatal, nInserted, seenLen>>

\* `delegate.call(buf)` returns into the for_each.
EachDelegateReturn(th) ==
    /\ ~fatal
    /\ At(th, "each_delegate", "run")
    /\ Pop(th)
    /\ Silent
    /\ UNCHANGED <<facVars, syncVars, obsVars, ffiVars>>
    /\ UNCHANGED <<hDoc, parentOf, docLock, txnLock, cell, phase, txnDoc, store, arr, changed,
                   borrowFlag, observed, fatal, nInserted, seenLen>>

\* YrsArray::each, the end of the iteration: the borrow and the guard drop.
EachDone(th) ==
    /\ ~fatal
    /\ At(th, "each", "iter")
    /\ Top(th).ix = Len(arr[ArrDoc(Top(th).f)])
    /\ borrowFlag' = [borrowFlag EXCEPT ![Top(th).f] = @ - 1]
    /\ txnLock' = [txnLock EXCEPT ![Top(th).t] = Unlocked(@, th)]
    /\ Return(th, Outcome(th, "each", "ok", Top(th).t, Len(calls), "none"))
    /\ UNCHANGED <<facVars, syncVars, obsVars>>
    /\ UNCHANGED <<hDoc, parentOf, docLock, cell, phase, txnDoc, store, arr, changed, observed,
                   fatal, nInserted, seenLen>>
    /\ UNCHANGED ffiVars

\* YrsArray::observe: `self.0.borrow_mut().observe(closure)` registers the closure
\* that calls the delegate, and `YSubscription::new(subscription)` wraps the token.
Observe(th, f) ==
    /\ ~fatal
    /\ Idle(th)
    /\ facAddr[f] # 0
    /\ ~observed[f]
    /\ sub[f].st = "none"
    /\ IF borrowFlag[f] = 0
       THEN /\ observed' = [observed EXCEPT ![f] = TRUE]
            /\ sub' = [sub EXCEPT ![f].st = "live"]
            /\ result' = Outcome(th, "observe", "ok", 0, 0, "none")
            /\ UNCHANGED fatal
       ELSE /\ result' = Outcome(th, "observe", "panic", 0, 0, "borrow")
            /\ fatal' = TRUE
            /\ UNCHANGED <<observed, sub>>
    /\ UNCHANGED <<facVars, syncVars, calls>>
    /\ UNCHANGED <<hDoc, parentOf, docLock, txnLock, cell, phase, txnDoc, store, arr, changed, borrowFlag,
                   stack, nInserted, seenLen>>
    /\ UNCHANGED ffiVars

\* ------------------------------------------------------------ Subscription
\* A dispose that unregisters on every call.
DisposeAgain(th, f) ==
    /\ ~fatal
    /\ Idle(th)
    /\ sub[f].st \in {"live", "disposed"}
    /\ sub' = [sub EXCEPT ![f] = [st |-> "disposed", n |-> @.n + 1]]
    /\ observed' = [observed EXCEPT ![f] = FALSE]
    /\ result' = Outcome(th, "dispose", "ok", 0, f, "unregistered")
    /\ UNCHANGED <<facVars, syncVars, calls>>
    /\ UNCHANGED <<hDoc, parentOf, docLock, txnLock, cell, phase, txnDoc, store, arr, changed,
                   borrowFlag, stack, fatal, nInserted, seenLen>>
    /\ UNCHANGED ffiVars

\* Subscription.dispose: the first call unregisters the callback, a later call does
\* nothing and raises no error.
Dispose(th, f) ==
    /\ ~fatal
    /\ Idle(th)
    /\ sub[f].st \in {"live", "disposed"}
    /\ IF sub[f].st = "live"
       THEN /\ sub' = [sub EXCEPT ![f] = [st |-> "disposed", n |-> @.n + 1]]
            /\ observed' = [observed EXCEPT ![f] = FALSE]
            /\ result' = Outcome(th, "dispose", "ok", 0, f, "unregistered")
       ELSE /\ result' = Outcome(th, "dispose", "ok", 0, f, "noop")
            /\ UNCHANGED <<sub, observed>>
    /\ UNCHANGED <<facVars, syncVars, calls>>
    /\ UNCHANGED <<hDoc, parentOf, docLock, txnLock, cell, phase, txnDoc, store, arr, changed,
                   borrowFlag, stack, fatal, nInserted, seenLen>>
    /\ UNCHANGED ffiVars

\* The last handle of a Subscription is dropped: a callback that is still registered
\* is unregistered.
DropSubscription(th, f) ==
    /\ ~fatal
    /\ Idle(th)
    /\ sub[f].st \in {"live", "disposed"}
    /\ sub' = [sub EXCEPT ![f] = [st |-> "dropped", n |-> IF @.st = "live" THEN @.n + 1 ELSE @.n]]
    /\ observed' = [observed EXCEPT ![f] = FALSE]
    /\ result' = Outcome(th, "drop_subscription", "ok", 0, f, "none")
    /\ UNCHANGED <<facVars, syncVars, calls>>
    /\ UNCHANGED <<hDoc, parentOf, docLock, txnLock, cell, phase, txnDoc, store, arr, changed,
                   borrowFlag, stack, fatal, nInserted, seenLen>>
    /\ UNCHANGED ffiVars

\* ------------------------------------------------ updates: encode and apply
\* The blocks of d's store with a clock above c, as an Update: each with its id, its
\* left origin, its parent (1: the root array "a") and its value.
BlocksFrom(d, c) ==
    [i \in 1..(Len(blocks[d]) - c) |->
        [id |-> c + i, left |-> blocks[d][c + i].left, par |-> 1, val |-> blocks[d][c + i].val]]

RECURSIVE Flatten(_)
Flatten(bs) ==
    IF bs = <<>> THEN <<>>
    ELSE <<Head(bs).id, Head(bs).left, Head(bs).par, Head(bs).val>> \o Flatten(Tail(bs))

\* Update::encode_v1: the number of blocks, then the four fields of every block.
EncodeV1(bs) == <<Len(bs)>> \o Flatten(bs)

\* Update::decode_v1: fails on bytes that are not a block count followed by that
\* many blocks.
DecodeOk(bytes) == bytes # <<>> /\ Len(bytes) = 1 + 4 * bytes[1]
DecodeV1(bytes) ==
    [i \in 1..bytes[1] |->
        [id |-> bytes[4 * i - 2], left |-> bytes[4 * i - 1], par |-> bytes[4 * i],
         val |-> bytes[4 * i + 1]]]

\* An integration that puts every new item at the end of the array.
PosOfEnd(ids, k) == Len(ids)

\* Position of the item with id k in a sequence of ids (0: before the first).
PosOf(ids, k) == IF k = 0 THEN 0 ELSE CHOOSE i \in 1..Len(ids) : ids[i] = k

\* The pending blocks ps merged with the blocks bs: a block that is pending already
\* is not kept twice.
Merge(ps, bs) ==
    ps \o SelectSeq(bs, LAMBDA b : \A i \in 1..Len(ps) : ps[i].id # b.id)

RECURSIVE Integrate(_, _)
\* The engine's integration of the blocks bs into a store st, block by block: a block
\* the store has is skipped, a block whose predecessor is missing goes to the pending
\* blocks with all that follow it, a block whose parent does not resolve ends the
\* integration with an error (what was integrated before it stays), any other block
\* becomes an item placed after its left origin.
Integrate(st, bs) ==
    IF bs = <<>> THEN st
    ELSE LET b == Head(bs)
         IN IF b.id <= Len(st.blocks) THEN Integrate(st, Tail(bs))
            ELSE IF b.id > Len(st.blocks) + 1 THEN [st EXCEPT !.pend = Merge(@, bs)]
            ELSE IF b.par # 1 THEN [st EXCEPT !.err = TRUE]
            ELSE Integrate([st EXCEPT !.blocks = Append(@, [left |-> b.left, val |-> b.val]),
                                      !.ord = InsertAt(@, PosOf(@, b.left), b.id)],
                           Tail(bs))

\* The engine's TransactionMut::apply_update on document d: the update is integrated,
\* then the blocks that were pending are tried again; on an error the store is left
\* as the integration left it.
ApplyTo(d, u) ==
    LET st0 == [blocks |-> blocks[d], ord |-> ord[d], pend |-> <<>>, err |-> FALSE]
        st1 == Integrate(st0, u)
    IN IF st1.err THEN [st1 EXCEPT !.pend = pend[d]] ELSE Integrate(st1, pend[d])

\* The values of the array in document order.
Content(st) == [i \in 1..Len(st.ord) |-> st.blocks[st.ord[i]].val]

\* Bytes that are no update, and the encoding of an update whose second block has a
\* parent that does not resolve.
Garbage == <<7>>
Rejected ==
    EncodeV1(<<[id |-> 1, left |-> 0, par |-> 1, val |-> 1],
               [id |-> 2, left |-> 1, par |-> 0, val |-> 2]>>)

\* ------------------------------ YrsTransaction::transaction_encode_update
\* `let guard = self.transaction()`.
EncodeLock(th, t) ==
    /\ Silent
    /\ CanCall(th, "encode_update", t)
    /\ Born(t)
    /\ CanLock(txnLock[t], th)
    /\ txnLock' = [txnLock EXCEPT ![t] = Locked(@, th)]
    /\ Push(th, Frame("encode_update", "unwrap", 0, t, 0, 0, ""))
    /\ UNCHANGED <<facVars, syncVars, obsVars>>
    /\ UNCHANGED <<hDoc, parentOf, docLock, cell, phase, txnDoc, store, arr, changed, borrowFlag,
                   observed, fatal, nInserted, seenLen>>
    /\ UNCHANGED ffiVars

\* `guard.as_ref().unwrap().encode_update_v1()`: the blocks the store got since the
\* transaction began; then the guard drops.
EncodeUnwrap(th) ==
    /\ ~fatal
    /\ At(th, "encode_update", "unwrap")
    /\ LET t == Top(th).t
       IN /\ txnLock' = [txnLock EXCEPT ![t] = Unlocked(@, th)]
          /\ IF cell[t] = "Some"
             THEN /\ wire' = EncodeV1(BlocksFrom(txnDoc[t], before[t]))
                  /\ Return(th, Outcome(th, "encode_update", "ok", t, 0, "none"))
                  /\ UNCHANGED fatal
             ELSE /\ PanicOut(th, "encode_update", t, "unwrap_none")
                  /\ UNCHANGED wire
    /\ UNCHANGED <<facVars, blocks, ord, pend, before, obsVars>>
    /\ UNCHANGED <<hDoc, parentOf, docLock, cell, phase, txnDoc, store, arr, changed, borrowFlag,
                   observed, nInserted, seenLen>>
    /\ UNCHANGED ffiVars


\* ------------------------------------------------ YrsDoc accessors
\* YrsDoc::guid, `self.doc()`: takes the handle's ReentrantMutex.
GuidDoc(th, h) ==
    /\ Silent
    /\ CanCall(th, "guid", 0)
    /\ hDoc[h] # 0
    /\ CanLock(docLock[h], th)
    /\ docLock' = [docLock EXCEPT ![h] = Locked(@, th)]
    /\ Push(th, Frame("guid", "read", h, 0, 0, 0, ""))
    /\ UNCHANGED <<facVars, syncVars, obsVars>>
    /\ UNCHANGED <<hDoc, parentOf, txnLock, cell, phase, txnDoc, store, arr, changed,
                   borrowFlag, observed, fatal, nInserted, seenLen>>
    /\ UNCHANGED ffiVars

\* YrsDoc::guid, `.as_ref().guid().to_string()`; the DocGuard drops at the return.
GuidRead(th) ==
    /\ ~fatal
    /\ At(th, "guid", "read")
    /\ docLock' = [docLock EXCEPT ![Top(th).h] = Unlocked(@, th)]
    /\ Return(th, Outcome(th, "guid", "ok", 0, hDoc[Top(th).h], "none"))
    /\ UNCHANGED <<facVars, syncVars, obsVars>>
    /\ UNCHANGED <<hDoc, parentOf, txnLock, cell, phase, txnDoc, store, arr, changed,
                   borrowFlag, observed, fatal, nInserted, seenLen>>
    /\ UNCHANGED ffiVars

NoHandle == {h \in Handles : hDoc[h] = 0}
InParentDoc == {th \in Threads : ~Idle(th) /\ Top(th).op = "parent_doc"}
\* YrsDoc::from_doc: a new YrsDoc, with a ReentrantMutex of its own, around the Doc.
NewHandle == CHOOSE h \in NoHandle : \A g \in NoHandle : h <= g

\* YrsDoc::parent_doc, `self.doc()`.
ParentDocDoc(th, h) ==
    /\ Silent
    /\ CanCall(th, "parent_doc", 0)
    /\ hDoc[h] # 0
    /\ Cardinality(NoHandle) > Cardinality(InParentDoc)
    /\ CanLock(docLock[h], th)
    /\ docLock' = [docLock EXCEPT ![h] = Locked(@, th)]
    /\ Push(th, Frame("parent_doc", "wrap", h, 0, 0, 0, ""))
    /\ UNCHANGED <<facVars, syncVars, obsVars>>
    /\ UNCHANGED <<hDoc, parentOf, txnLock, cell, phase, txnDoc, store, arr, changed,
                   borrowFlag, observed, fatal, nInserted, seenLen>>
    /\ UNCHANGED ffiVars

\* YrsDoc::parent_doc, `.parent_doc().map(|doc| Arc::new(YrsDoc::from_doc(doc)))`:
\* the parent document, if there is one, is wrapped in a new handle.
ParentDocWrap(th) ==
    /\ ~fatal
    /\ At(th, "parent_doc", "wrap")
    /\ LET h == Top(th).h
           p == parentOf[hDoc[h]]
       IN /\ docLock' = [docLock EXCEPT ![h] = Unlocked(@, th)]
          /\ IF p # 0
             THEN /\ hDoc' = [hDoc EXCEPT ![NewHandle] = p]
                  /\ Return(th, Outcome(th, "parent_doc", "ok", 0, NewHandle, "some"))
             ELSE /\ Return(th, Outcome(th, "parent_doc", "ok", 0, 0, "none"))
                  /\ UNCHANGED hDoc
    /\ UNCHANGED <<facVars, syncVars, obsVars>>
    /\ UNCHANGED <<parentOf, txnLock, cell, phase, txnDoc, store, arr, changed,
                   borrowFlag, observed, fatal, nInserted, seenLen>>
    /\ UNCHANGED ffiVars

\* YrsDoc::ptr_eq, `self.doc()`: the first argument of Doc::ptr_eq.
PtrEqSelf(th, h, o) ==
    /\ Silent
    /\ CanCall(th, "ptr_eq", 0)
    /\ hDoc[h] # 0 /\ hDoc[o] # 0
    /\ CanLock(docLock[h], th)
    /\ docLock' = [docLock EXCEPT ![h] = Locked(@, th)]
    /\ Push(th, Frame2("ptr_eq", "other", h, o))
    /\ UNCHANGED <<facVars, syncVars, obsVars>>
    /\ UNCHANGED <<hDoc, parentOf, txnLock, cell, phase, txnDoc, store, arr, changed,
                   borrowFlag, observed, fatal, nInserted, seenLen>>
    /\ UNCHANGED ffiVars

\* YrsDoc::ptr_eq, `other.doc()`: the second argument, taken while the first
\* DocGuard is alive.
PtrEqOther(th) ==
    /\ Silent
    /\ ~fatal
    /\ At(th, "ptr_eq", "other")
    /\ CanLock(docLock[Top(th).o], th)
    /\ docLock' = [docLock EXCEPT ![Top(th).o] = Locked(@, th)]
    /\ Goto(th, "compare")
    /\ UNCHANGED <<facVars, syncVars, obsVars>>
    /\ UNCHANGED <<hDoc, parentOf, txnLock, cell, phase, txnDoc, store, arr, changed,
                   borrowFlag, observed, fatal, nInserted, seenLen>>
    /\ UNCHANGED ffiVars

\* YrsDoc::ptr_eq, `Doc::ptr_eq(..)`; both DocGuards drop at the end of the statement.
PtrEqCompare(th) ==
    /\ ~fatal
    /\ At(th, "ptr_eq", "compare")
    /\ LET h == Top(th).h
           o == Top(th).o
       IN /\ docLock' = [docLock EXCEPT ![h] = Unlocked(@, th), ![o] = Unlocked(@, th)]
          /\ Return(th, Outcome(th, "ptr_eq", "ok", 0, IF hDoc[h] = hDoc[o] THEN 1 ELSE 0, "none"))
    /\ UNCHANGED <<facVars, syncVars, obsVars>>
    /\ UNCHANGED <<hDoc, parentOf, txnLock, cell, phase, txnDoc, store, arr, changed,
                   borrowFlag, observed, fatal, nInserted, seenLen>>
    /\ UNCHANGED ffiVars

\* ------------------------------------------------------ YrsDoc::get_array
NoFacade == {f \in Arrays : facAddr[f] = 0}
InGetArray == {th \in Threads : ~Idle(th) /\ Top(th).op = "get_array"}
\* YrsArray::from: a new YrsArray object, i.e. a new RefCell around the ArrayRef.
NewFacade == CHOOSE f \in NoFacade : \A g \in NoFacade : f <= g

\* Addresses of the Branches allocated so far (the root arrays and the nested
\* collections held by array elements); a new Branch gets the next one.
Allocated ==
    ({root[d][n] : d \in Docs, n \in Names}
     \cup UNION {{AddrOf(blocks[d][i].val) : i \in 1..Len(blocks[d])} : d \in Docs}) \ {0}
NewAddr == Cardinality(Allocated) + 1

\* A root lookup that allocates a Branch on every call.
GetOrInsertAlways(d, n) == NewAddr

\* The engine's get_or_insert_array: the Branch registered under the name in the
\* document's store, allocated on the first call for that name.
GetOrInsert(d, n) == IF root[d][n] # 0 THEN root[d][n] ELSE NewAddr

\* YrsDoc::get_array, `self.doc()`.
GetArrayDoc(th, h, n) ==
    /\ Silent
    /\ CanCall(th, "get_array", 0)
    /\ hDoc[h] # 0
    /\ Cardinality(NoFacade) > Cardinality(InGetArray)
    /\ CanLock(docLock[h], th)
    /\ docLock' = [docLock EXCEPT ![h] = Locked(@, th)]
    /\ Push(th, Frame("get_array", "root", h, 0, 0, 0, n))
    /\ UNCHANGED <<facVars, syncVars, obsVars>>
    /\ UNCHANGED <<hDoc, parentOf, txnLock, cell, phase, txnDoc, store, arr, changed,
                   borrowFlag, observed, fatal, nInserted, seenLen>>
    /\ UNCHANGED ffiVars

\* YrsDoc::get_array, `.as_ref().get_or_insert_array(name)` to the return: the engine
\* needs the store's write lock for the lookup (it waits while a transaction has it),
\* the DocGuard drops at the end of the statement, and the ArrayRef is wrapped in a
\* new YrsArray.
GetArrayRoot(th) ==
    /\ ~fatal
    /\ At(th, "get_array", "root")
    /\ LET h == Top(th).h
           d == hDoc[h]
           n == Top(th).v
           a == GetOrInsert(d, n)
       IN /\ StoreFree(d)
          /\ root' = [root EXCEPT ![d][n] = a]
          /\ facAddr' = [facAddr EXCEPT ![NewFacade] = a]
          /\ facKey' = [facKey EXCEPT ![NewFacade] = <<d, n>>]
          /\ docLock' = [docLock EXCEPT ![h] = Unlocked(@, th)]
          /\ Return(th, Outcome(th, "get_array", "ok", 0, NewFacade, n))
    /\ UNCHANGED <<syncVars, obsVars>>
    /\ UNCHANGED <<hDoc, parentOf, txnLock, cell, phase, txnDoc, store, arr, changed,
                   borrowFlag, observed, fatal, nInserted, seenLen>>
    /\ UNCHANGED ffiVars

\* YrsCollectionPtr::from(borrowed.as_ref()): the address of the facade's Branch.
RawPtrOf(f) == facAddr[f]

\* YrsArray::raw_ptr: `self.0.borrow()` and the address of the Branch; the borrow
\* ends with the call.
RawPtr(th, f) ==
    /\ CanCall(th, "raw_ptr", 0)
    /\ facAddr[f] # 0
    /\ IF borrowFlag[f] < 0
       THEN /\ result' = Outcome(th, "raw_ptr", "panic", 0, 0, "borrow")
            /\ fatal' = TRUE
       ELSE /\ result' = Outcome(th, "raw_ptr", "ok", 0, RawPtrOf(f), "none")
            /\ UNCHANGED fatal
    /\ UNCHANGED <<facVars, syncVars, obsVars>>
    /\ UNCHANGED <<hDoc, parentOf, docLock, txnLock, cell, phase, txnDoc, store, arr, changed,
                   borrowFlag, observed, stack, nInserted, seenLen>>
    /\ UNCHANGED ffiVars


\* ------------------- YrsArray::insert_map / insert_array / insert_text
\* `let mut tx = transaction.transaction()`; k is the kind of the collection the
\* function inserts.
InsertNestedLock(th, f, t, ix, k) ==
    /\ Silent
    /\ CanCall(th, "insert_nested", t)
    /\ Born(t)
    /\ facAddr[f] # 0
    /\ Len(arr[ArrDoc(f)]) + Incoming < MaxLen
    /\ CanLock(txnLock[t], th)
    /\ txnLock' = [txnLock EXCEPT ![t] = Locked(@, th)]
    /\ Push(th, Frame("insert_nested", "unwrap", 0, t, f, ix, k))
    /\ UNCHANGED <<facVars, syncVars, obsVars>>
    /\ UNCHANGED <<hDoc, parentOf, docLock, cell, phase, txnDoc, store, arr, changed, borrowFlag,
                   observed, fatal, nInserted, seenLen>>
    /\ UNCHANGED ffiVars

\* `tx.as_mut().unwrap()` and `let arr = self.0.borrow_mut()`: either may panic.
InsertNestedBorrow(th) ==
    /\ ~fatal
    /\ At(th, "insert_nested", "unwrap")
    /\ LET t == Top(th).t
           f == Top(th).f
       IN IF cell[t] # "Some"
          THEN /\ txnLock' = [txnLock EXCEPT ![t] = Unlocked(@, th)]
               /\ PanicOut(th, "insert_nested", t, "unwrap_none")
               /\ UNCHANGED borrowFlag
          ELSE IF borrowFlag[f] # 0
          THEN /\ txnLock' = [txnLock EXCEPT ![t] = Unlocked(@, th)]
               /\ PanicOut(th, "insert_nested", t, "borrow")
               /\ UNCHANGED borrowFlag
          ELSE /\ borrowFlag' = [borrowFlag EXCEPT ![f] = -1]
               /\ Goto(th, "apply")
               /\ Silent
               /\ UNCHANGED <<txnLock, fatal>>
    /\ UNCHANGED <<facVars, syncVars, obsVars>>
    /\ UNCHANGED <<hDoc, parentOf, docLock, cell, phase, txnDoc, store, arr, changed, observed,
                   nInserted, seenLen>>
    /\ UNCHANGED ffiVars

\* `arr.insert(tx, index, prelim)` and the wrapping of the returned reference: the
\* engine integrates the prelim as a new Branch (it panics on an index past the end)
\* and returns a reference to it; the facade returned wraps that Branch.  Then the
\* borrow and the guard drop.
InsertNestedApply(th) ==
    /\ ~fatal
    /\ At(th, "insert_nested", "apply")
    /\ LET t == Top(th).t
           f == Top(th).f
           d == ArrDoc(f)
           ix == Top(th).ix
           x == Node(KindCode(Top(th).v), NewAddr)
       IN /\ txnLock' = [txnLock EXCEPT ![t] = Unlocked(@, th)]
          /\ borrowFlag' = [borrowFlag EXCEPT ![f] = 0]
          /\ IF ix <= Len(arr[d])
             THEN /\ arr' = [arr EXCEPT ![d] = InsertAt(@, ix, x)]
                  /\ blocks' = [blocks EXCEPT ![d] = @ \o NewItems(d, ix, <<x>>)]
                  /\ ord' = [ord EXCEPT ![d] = InsertAll(@, ix, NewIds(d, <<x>>))]
                  /\ changed' = [changed EXCEPT ![t] = TRUE]
                  /\ nInserted' = [nInserted EXCEPT ![d] = @ + 1]
                  /\ Return(th, Outcome(th, "insert_nested", "ok", t, NewAddr, Top(th).v))
                  /\ UNCHANGED fatal
             ELSE /\ PanicOut(th, "insert_nested", t, "index")
                  /\ UNCHANGED <<arr, changed, nInserted, blocks, ord>>
    /\ UNCHANGED <<facVars, pend, before, wire, obsVars>>
    /\ UNCHANGED <<hDoc, parentOf, docLock, cell, phase, txnDoc, store, observed, seenLen>>
    /\ UNCHANGED ffiVars

\* ---------------------------- YrsArray::get_map / get_array / get_text
\* A getter that wraps whatever collection it finds at the index.
NestedAtAny(xs, ix, k) ==
    IF ix < Len(xs) /\ KindOf(xs[ix + 1]) \in {"map", "array", "text"}
    THEN AddrOf(xs[ix + 1]) ELSE 0

\* `if let Some(Out::YArray(nested)) = arr.get(tx, index)` (YMap, YText alike): the
\* address of the Branch of the element at ix when there is one and it is of kind k,
\* else 0 (the getter returns None).
NestedAt(xs, ix, k) ==
    IF ix < Len(xs) /\ KindOf(xs[ix + 1]) = k THEN AddrOf(xs[ix + 1]) ELSE 0

\* `let tx = transaction.transaction()`; k is the kind the getter asks for.
GetNestedLock(th, f, t, ix, k) ==
    /\ Silent
    /\ CanCall(th, "get_nested", t)
    /\ Born(t)
    /\ facAddr[f] # 0
    /\ CanLock(txnLock[t], th)
    /\ txnLock' = [txnLock EXCEPT ![t] = Locked(@, th)]
    /\ Push(th, Frame("get_nested", "unwrap", 0, t, f, ix, k))
    /\ UNCHANGED <<facVars, syncVars, obsVars>>
    /\ UNCHANGED <<hDoc, parentOf, docLock, cell, phase, txnDoc, store, arr, changed, borrowFlag,
                   observed, fatal, nInserted, seenLen>>
    /\ UNCHANGED ffiVars

\* `tx.as_ref().unwrap()` and `let arr = self.0.borrow()`: either may panic.
GetNestedBorrow(th) ==
    /\ ~fatal
    /\ At(th, "get_nested", "unwrap")
    /\ LET t == Top(th).t
           f == Top(th).f
       IN IF cell[t] # "Some"
          THEN /\ txnLock' = [txnLock EXCEPT ![t] = Unlocked(@, th)]
               /\ PanicOut(th, "get_nested", t, "unwrap_none")
               /\ UNCHANGED borrowFlag
          ELSE IF borrowFlag[f] < 0
          THEN /\ txnLock' = [txnLock EXCEPT ![t] = Unlocked(@, th)]
               /\ PanicOut(th, "get_nested", t, "borrow")
               /\ UNCHANGED borrowFlag
          ELSE /\ borrowFlag' = [borrowFlag EXCEPT ![f] = @ + 1]
               /\ Goto(th, "match")
               /\ Silent
               /\ UNCHANGED <<txnLock, fatal>>
    /\ UNCHANGED <<facVars, syncVars, obsVars>>
    /\ UNCHANGED <<hDoc, parentOf, docLock, cell, phase, txnDoc, store, arr, changed, observed,
                   nInserted, seenLen>>
    /\ UNCHANGED ffiVars

\* The `if let` and the wrapping of the nested reference in a new facade (the value
\* returned is the address of the Branch the facade wraps, 0 for None); then the
\* borrow and the guard drop.
GetNestedMatch(th) ==
    /\ ~fatal
    /\ At(th, "get_nested", "match")
    /\ txnLock' = [txnLock EXCEPT ![Top(th).t] = Unlocked(@, th)]
    /\ borrowFlag' = [borrowFlag EXCEPT ![Top(th).f] = @ - 1]
    /\ Return(th, Outcome(th, "get_nested", "ok", Top(th).t,
                          NestedAt(arr[ArrDoc(Top(th).f)], Top(th).ix, Top(th).v), Top(th).v))
    /\ UNCHANGED <<facVars, syncVars, obsVars>>
    /\ UNCHANGED <<hDoc, parentOf, docLock, cell, phase, txnDoc, store, arr, changed, observed, fatal,
                   nInserted, seenLen>>
    /\ UNCHANGED ffiVars

\* ------------------------------------------------ YrsArray::is_undefined
\* An is_undefined that takes an index without an element for an undefined one.
IsUndefinedAtAbsent(xs, ix) == ix >= Len(xs) \/ KindOf(xs[ix + 1]) = "undefined"

\* `matches!(arr.get(tx, index), Some(Out::UndefinedRef(_)))`.
IsUndefinedAt(xs, ix) == ix < Len(xs) /\ KindOf(xs[ix + 1]) = "undefined"

\* YrsArray::is_undefined, `let tx = transaction.transaction()`.
IsUndefinedLock(th, f, t, ix) ==
    /\ Silent
    /\ CanCall(th, "is_undefined", t)
    /\ Born(t)
    /\ facAddr[f] # 0
    /\ CanLock(txnLock[t], th)
    /\ txnLock' = [txnLock EXCEPT ![t] = Locked(@, th)]
    /\ Push(th, Frame("is_undefined", "unwrap", 0, t, f, ix, ""))
    /\ UNCHANGED <<facVars, syncVars, obsVars>>
    /\ UNCHANGED <<hDoc, parentOf, docLock, cell, phase, txnDoc, store, arr, changed, borrowFlag,
                   observed, fatal, nInserted, seenLen>>
    /\ UNCHANGED ffiVars

\* `tx.as_ref().unwrap()` and `let arr = self.0.borrow()`: either may panic.
IsUndefinedBorrow(th) ==
    /\ ~fatal
    /\ At(th, "is_undefined", "unwrap")
    /\ LET t == Top(th).t
           f == Top(th).f
       IN IF cell[t] # "Some"
          THEN /\ txnLock' = [txnLock EXCEPT ![t] = Unlocked(@, th)]
               /\ PanicOut(th, "is_undefined", t, "unwrap_none")
               /\ UNCHANGED borrowFlag
          ELSE IF borrowFlag[f] < 0
          THEN /\ txnLock' = [txnLock EXCEPT ![t] = Unlocked(@, th)]
               /\ PanicOut(th, "is_undefined", t, "borrow")
               /\ UNCHANGED borrowFlag
          ELSE /\ borrowFlag' = [borrowFlag EXCEPT ![f] = @ + 1]
               /\ Goto(th, "match")
               /\ Silent
               /\ UNCHANGED <<txnLock, fatal>>
    /\ UNCHANGED <<facVars, syncVars, obsVars>>
    /\ UNCHANGED <<hDoc, parentOf, docLock, cell, phase, txnDoc, store, arr, changed, observed,
                   nInserted, seenLen>>
    /\ UNCHANGED ffiVars

\* The `matches!`; then the borrow and the guard drop.
IsUndefinedMatch(th) ==
    /\ ~fatal
    /\ At(th, "is_undefined", "match")
    /\ txnLock' = [txnLock EXCEPT ![Top(th).t] = Unlocked(@, th)]
    /\ borrowFlag' = [borrowFlag EXCEPT ![Top(th).f] = @ - 1]
    /\ Return(th, Outcome(th, "is_undefined", "ok", Top(th).t,
                          IsUndefinedAt(arr[ArrDoc(Top(th).f)], Top(th).ix), "none"))
    /\ UNCHANGED <<facVars, syncVars, obsVars>>
    /\ UNCHANGED <<hDoc, parentOf, docLock, cell, phase, txnDoc, store, arr, changed, observed, fatal,
                   nInserted, seenLen>>
    /\ UNCHANGED ffiVars


\* ----------------------------------------------------------- YrsArray::get
\* What get returns for index ix of the elements xs: the JSON text of a scalar,
\* EncodingError for any other element and for an index without an element.
GetAt(xs, ix) ==
    IF ix < Len(xs) /\ IsAny(xs[ix + 1])
    THEN [kind |-> "ok", val |-> ToJson(xs[ix + 1]), why |-> "none"]
    ELSE [kind |-> "err", val |-> "", why |-> "EncodingError"]

\* YrsArray::get, `let tx = transaction.transaction()`.
GetLock(th, f, t, ix) ==
    /\ Silent
    /\ CanCall(th, "get", t)
    /\ Born(t)
    /\ facAddr[f] # 0
    /\ CanLock(txnLock[t], th)
    /\ txnLock' = [txnLock EXCEPT ![t] = Locked(@, th)]
    /\ Push(th, Frame("get", "unwrap", 0, t, f, ix, ""))
    /\ UNCHANGED <<facVars, syncVars, obsVars>>
    /\ UNCHANGED <<hDoc, parentOf, docLock, cell, phase, txnDoc, store, arr, changed, borrowFlag,
                   observed, fatal, nInserted, seenLen>>
    /\ UNCHANGED ffiVars

\* `tx.as_ref().unwrap()` and `let arr = self.0.borrow()`: either may panic.
GetBorrow(th) ==
    /\ ~fatal
    /\ At(th, "get", "unwrap")
    /\ LET t == Top(th).t
           f == Top(th).f
       IN IF cell[t] # "Some"
          THEN /\ txnLock' = [txnLock EXCEPT ![t] = Unlocked(@, th)]
               /\ PanicOut(th, "get", t, "unwrap_none")
               /\ UNCHANGED borrowFlag
          ELSE IF borrowFlag[f] < 0
          THEN /\ txnLock' = [txnLock EXCEPT ![t] = Unlocked(@, th)]
               /\ PanicOut(th, "get", t, "borrow")
               /\ UNCHANGED borrowFlag
          ELSE /\ borrowFlag' = [borrowFlag EXCEPT ![f] = @ + 1]
               /\ Goto(th, "match")
               /\ Silent
               /\ UNCHANGED <<txnLock, fatal>>
    /\ UNCHANGED <<facVars, syncVars, obsVars>>
    /\ UNCHANGED <<hDoc, parentOf, docLock, cell, phase, txnDoc, store, arr, changed, observed,
                   nInserted, seenLen>>
    /\ UNCHANGED ffiVars

\* `if let Some(value) = arr.get(tx, index)` and the result; then the borrow and
\* the guard drop.
GetValue(th) ==
    /\ ~fatal
    /\ At(th, "get", "match")
    /\ txnLock' = [txnLock EXCEPT ![Top(th).t] = Unlocked(@, th)]
    /\ borrowFlag' = [borrowFlag EXCEPT ![Top(th).f] = @ - 1]
    /\ LET g == GetAt(arr[ArrDoc(Top(th).f)], Top(th).ix)
       IN Return(th, Outcome(th, "get", g.kind, Top(th).t, g.val, g.why))
    /\ UNCHANGED <<facVars, syncVars, obsVars>>
    /\ UNCHANGED <<hDoc, parentOf, docLock, cell, phase, txnDoc, store, arr, changed, observed, fatal,
                   nInserted, seenLen>>
    /\ UNCHANGED ffiVars


\* -------------------------------------------------------- YrsArray::remove
\* The sequence s without its element at index ix (counted from 0).
RemoveAt(s, ix) == SubSeq(s, 1, ix) \o SubSeq(s, ix + 2, Len(s))

\* YrsArray::remove, `let mut tx = transaction.transaction()`.  (The store keeps
\* the removed items: removes are made while it holds at most MaxLen items.)
RemoveLock(th, f, t, ix) ==
    /\ Silent
    /\ CanCall(th, "remove", t)
    /\ Born(t)
    /\ facAddr[f] # 0
    /\ Len(blocks[ArrDoc(f)]) + Incoming <= MaxLen
    /\ CanLock(txnLock[t], th)
    /\ txnLock' = [txnLock EXCEPT ![t] = Locked(@, th)]
    /\ Push(th, Frame("remove", "unwrap", 0, t, f, ix, ""))
    /\ UNCHANGED <<facVars, syncVars, obsVars>>
    /\ UNCHANGED <<hDoc, parentOf, docLock, cell, phase, txnDoc, store, arr, changed, borrowFlag,
                   observed, fatal, nInserted, seenLen>>
    /\ UNCHANGED ffiVars

\* `tx.as_mut().unwrap()` and `let arr = self.0.borrow_mut()`: either may panic.
RemoveBorrow(th) ==
    /\ ~fatal
    /\ At(th, "remove", "unwrap")
    /\ LET t == Top(th).t
           f == Top(th).f
       IN IF cell[t] # "Some"
          THEN /\ txnLock' = [txnLock EXCEPT ![t] = Unlocked(@, th)]
               /\ PanicOut(th, "remove", t, "unwrap_none")
               /\ UNCHANGED borrowFlag
          ELSE IF borrowFlag[f] # 0
          THEN /\ txnLock' = [txnLock EXCEPT ![t] = Unlocked(@, th)]
               /\ PanicOut(th, "remove", t, "borrow")
               /\ UNCHANGED borrowFlag
          ELSE /\ borrowFlag' = [borrowFlag EXCEPT ![f] = -1]
               /\ Goto(th, "apply")
               /\ Silent
               /\ UNCHANGED <<txnLock, fatal>>
    /\ UNCHANGED <<facVars, syncVars, obsVars>>
    /\ UNCHANGED <<hDoc, parentOf, docLock, cell, phase, txnDoc, store, arr, changed, observed,
                   nInserted, seenLen>>
    /\ UNCHANGED ffiVars

\* `arr.remove(tx, index)`: the engine marks the item at the index deleted (the item
\* stays in the store, the elements after it move down by one); it panics on an
\* index without an element.  Then the borrow and the guard drop.
RemoveApply(th) ==
    /\ ~fatal
    /\ At(th, "remove", "apply")
    /\ LET t == Top(th).t
           f == Top(th).f
           d == ArrDoc(f)
           ix == Top(th).ix
       IN /\ txnLock' = [txnLock EXCEPT ![t] = Unlocked(@, th)]
          /\ borrowFlag' = [borrowFlag EXCEPT ![f] = 0]
          /\ IF ix < Len(arr[d])
             THEN /\ arr' = [arr EXCEPT ![d] = RemoveAt(@, ix)]
                  /\ ord' = [ord EXCEPT ![d] = RemoveAt(@, ix)]
                  /\ changed' = [changed EXCEPT ![t] = TRUE]
                  /\ Return(th, Outcome(th, "remove", "ok", t, 0, "none"))
                  /\ UNCHANGED fatal
             ELSE /\ PanicOut(th, "remove", t, "index")
                  /\ UNCHANGED <<arr, changed, ord>>
    /\ UNCHANGED <<facVars, blocks, pend, before, wire, obsVars>>
    /\ UNCHANGED <<hDoc, parentOf, docLock, cell, phase, txnDoc, store, observed, nInserted, seenLen>>
    /\ UNCHANGED ffiVars

\* ------------------------------------------------- YrsTransaction::origin
\* `let guard = self.transaction()`.
OriginLock(th, t) ==
    /\ Silent
    /\ CanCall(th, "origin", t)
    /\ Born(t)
    /\ CanLock(txnLock[t], th)
    /\ txnLock' = [txnLock EXCEPT ![t] = Locked(@, th)]
    /\ Push(th, Frame("origin", "read", 0, t, 0, 0, ""))
    /\ UNCHANGED <<facVars, syncVars, obsVars, ffiVars>>
    /\ UNCHANGED <<hDoc, parentOf, docLock, cell, phase, txnDoc, store, arr, changed, borrowFlag,
                   observed, fatal, nInserted, seenLen>>

\* `guard.as_ref()?.origin().cloned().map(YrsOrigin::from)` and the conversion of
\* the result to the caller's bytes: None for a freed transaction (the `?`), else the
\* origin of the TransactionMut; then the guard drops.
OriginRead(th) ==
    /\ ~fatal
    /\ At(th, "origin", "read")
    /\ LET t == Top(th).t
           o == origin[t]
       IN /\ txnLock' = [txnLock EXCEPT ![t] = Unlocked(@, th)]
          /\ Return(th, Outcome(th, "origin", "ok", t,
                                IF cell[t] # "Some" \/ o = <<>> THEN <<>>
                                ELSE <<FromCustom(FromOrigin(o[1]))>>, "none"))
    /\ UNCHANGED <<facVars, syncVars, obsVars, ffiVars>>
    /\ UNCHANGED <<hDoc, parentOf, docLock, cell, phase, txnDoc, store, arr, changed, borrowFlag,
                   observed, fatal, nInserted, seenLen>>

\* ------------------------------------------ mapchange::try_from_entry_change
\* An EntryChange is <<"Inserted", value>>, <<"Updated", old, new>> or
\* <<"Removed", value>>, its values elements (yrs::Out) as in an array; a
\* YrsEntryChange is the same with the JSON texts of the values.  An Option is <<>>
\* (None) or <<x>> (Some(x)).

\* A conversion that looks at the new value of an update only.
TryFromEntryChangeNew(key, change) ==
    IF IsAny(change[Len(change)])
    THEN <<[key |-> key, change |-> [i \in 1..Len(change) |-> IF i = 1 THEN change[1] ELSE ToJson(change[i])]]>>
    ELSE <<>>

\* try_from_entry_change: the match on the EntryChange; every arm returns None unless
\* its values are all Out::Any, and else builds the YrsEntryChange of the same
\* variant from their JSON texts, returned with the key.
TryFromEntryChange(key, change) ==
    CASE change[1] = "Inserted" ->
            IF IsAny(change[2])
            THEN <<[key |-> key, change |-> <<"Inserted", ToJson(change[2])>>]>>
            ELSE <<>>
      [] change[1] = "Updated" ->
            IF IsAny(change[2]) /\ IsAny(change[3])
            THEN <<[key |-> key, change |-> <<"Updated", ToJson(change[2]), ToJson(change[3])>>]>>
            ELSE <<>>
      [] change[1] = "Removed" ->
            IF IsAny(change[2])
            THEN <<[key |-> key, change |-> <<"Removed", ToJson(change[2])>>]>>
            ELSE <<>>

\* The conversion of the entry change handed over, as a map observer calls it.
ConvertEntryChange(th) ==
    /\ ~fatal
    /\ Idle(th)
    /\ item # NoItem
    /\ result' = Outcome(th, "try_from_entry_change", "ok", 0,
                         TryFromEntryChange(item.key, item.change), "none")
    /\ UNCHANGED <<facVars, syncVars, obsVars, ffiVars>>
    /\ UNCHANGED <<hDoc, parentOf, docLock, txnLock, cell, phase, txnDoc, store, arr, changed,
                   borrowFlag, observed, stack, fatal, nInserted, seenLen>>

\* -------- YrsDoc::encode_diff_v1, transaction_encode_state_as_update_from_sv
\* A state vector as bytes: the number of clients, then the client and the clock of
\* each (the model has the one client 1).
\* A decoder that takes any bytes for a state vector.
SvDecodeAny(bytes) == TRUE

\* StateVector::decode_v1 succeeds: the bytes are a client count followed by that
\* many pairs.
SvDecodeOk(bytes) == bytes # <<>> /\ Len(bytes) = 1 + 2 * bytes[1]

\* The clock a decoded state vector has for client 1 (0: it does not name the client).
SvClock(bytes) == IF Len(bytes) >= 3 THEN bytes[3] ELSE 0

\* The two functions that encode the store against a caller's state vector.
DiffOps == {"encode_diff_v1", "encode_state_as_update_from_sv"}

\* `let mut tx = transaction.transaction()` of either function; sv is the argument.
DiffLock(th, t, op, sv) ==
    /\ Silent
    /\ op \in DiffOps
    /\ CanCall(th, op, t)
    /\ Born(t)
    /\ CanLock(txnLock[t], th)
    /\ txnLock' = [txnLock EXCEPT ![t] = Locked(@, th)]
    /\ Push(th, FrameR(op, "unwrap", t, 0, 0, sv))
    /\ UNCHANGED <<facVars, syncVars, obsVars, ffiVars>>
    /\ UNCHANGED <<hDoc, parentOf, docLock, cell, phase, txnDoc, store, arr, changed, borrowFlag,
                   observed, fatal, nInserted, seenLen>>

\* `tx.as_mut().unwrap()`, then `StateVector::decode_v1(..).map_err(|_e|
\* CodingError::DecodingError).map(|sv| tx.encode_diff_v1(&sv))` (encode_state_as_update_v1
\* in the other function): the blocks above the vector's clock; then the guard drops.
DiffEncode(th) ==
    /\ ~fatal
    /\ ~Idle(th)
    /\ Top(th).op \in DiffOps
    /\ Top(th).pc = "unwrap"
    /\ LET t == Top(th).t
           op == Top(th).op
           sv == Top(th).vs
       IN /\ txnLock' = [txnLock EXCEPT ![t] = Unlocked(@, th)]
          /\ IF cell[t] # "Some"
             THEN /\ PanicOut(th, op, t, "unwrap_none")
                  /\ UNCHANGED wire
             ELSE IF SvDecodeOk(sv)
             THEN /\ wire' = EncodeV1(BlocksFrom(txnDoc[t], SvClock(sv)))
                  /\ Return(th, Outcome(th, op, "ok", t, 0, "none"))
                  /\ UNCHANGED fatal
             ELSE /\ Return(th, Outcome(th, op, "err", t, 0, "DecodingError"))
                  /\ UNCHANGED <<wire, fatal>>
    /\ UNCHANGED <<facVars, blocks, ord, pend, before, obsVars, ffiVars>>
    /\ UNCHANGED <<hDoc, parentOf, docLock, cell, phase, txnDoc, store, arr, changed, borrowFlag,
                   observed, nInserted, seenLen>>

\* ------------------------------------------------ YrsTransaction::json_path
\* A path expression is the sequence of its tokens.  JsonPath::parse succeeds on
\* "$" followed by member and index segments.
Segments == {".a", "[0]", "[*]"}
ParseOk(path) == path # <<>> /\ path[1] = "$" /\ \A i \in 2..Len(path) : path[i] \in Segments

\* The `.map(|out| ..)` of json_path on an array element: the JSON text of a scalar,
\* "null" for a document, an Xml node and an undefined reference.
OutJson(x) == IF IsAny(x) THEN ToJson(x) ELSE "null"

\* `tx.json_path(&parsed)` mapped to strings, for the paths of the model into the
\* root array "a" with elements xs: the elements an index or a wildcard selects.
EvalPath(path, xs) ==
    IF Len(path) = 3 /\ path[2] = ".a" /\ path[3] = "[0]"
    THEN (IF xs = <<>> THEN <<>> ELSE <<OutJson(xs[1])>>)
    ELSE IF Len(path) = 3 /\ path[2] = ".a" /\ path[3] = "[*]"
    THEN [i \in 1..Len(xs) |-> OutJson(xs[i])]
    ELSE <<>>

\* A json_path that takes the transaction's guard and unwraps it before it parses.
JsonPathLockFirst(th, t, path) ==
    /\ CanCall(th, "json_path", t)
    /\ Born(t)
    /\ CanLock(txnLock[t], th)
    /\ IF cell[t] # "Some"
       THEN /\ result' = Outcome(th, "json_path", "panic", t, 0, "unwrap_none")
            /\ fatal' = TRUE
            /\ UNCHANGED stack
       ELSE IF ParseOk(path)
       THEN /\ Push(th, FrameR("json_path", "lock", t, 0, 0, path))
            /\ Silent
            /\ UNCHANGED fatal
       ELSE /\ result' = Outcome(th, "json_path", "err", t, 0, "ParseError")
            /\ UNCHANGED <<stack, fatal>>
    /\ UNCHANGED <<facVars, syncVars, obsVars, ffiVars>>
    /\ UNCHANGED <<hDoc, parentOf, docLock, txnLock, cell, phase, txnDoc, store, arr, changed,
                   borrowFlag, observed, nInserted, seenLen>>

\* `JsonPath::parse(&path).map_err(|e| YrsJsonPathError::ParseError {..})?`: a path
\* that does not parse returns here.
JsonPathParse(th, t, path) ==
    /\ CanCall(th, "json_path", t)
    /\ Born(t)
    /\ IF ParseOk(path)
       THEN /\ Push(th, FrameR("json_path", "lock", t, 0, 0, path))
            /\ Silent
       ELSE /\ result' = Outcome(th, "json_path", "err", t, 0, "ParseError")
            /\ UNCHANGED stack
    /\ UNCHANGED <<facVars, syncVars, obsVars, ffiVars>>
    /\ UNCHANGED <<hDoc, parentOf, docLock, txnLock, cell, phase, txnDoc, store, arr, changed,
                   borrowFlag, observed, fatal, nInserted, seenLen>>

\* `let tx = self.transaction()`.
JsonPathLock(th) ==
    /\ Silent
    /\ ~fatal
    /\ At(th, "json_path", "lock")
    /\ CanLock(txnLock[Top(th).t], th)
    /\ txnLock' = [txnLock EXCEPT ![Top(th).t] = Locked(@, th)]
    /\ Goto(th, "unwrap")
    /\ UNCHANGED <<facVars, syncVars, obsVars, ffiVars>>
    /\ UNCHANGED <<hDoc, parentOf, docLock, cell, phase, txnDoc, store, arr, changed, borrowFlag,
                   observed, fatal, nInserted, seenLen>>

\* `tx.as_ref().unwrap()` and the evaluation; then the guard drops.
JsonPathEval(th) ==
    /\ ~fatal
    /\ At(th, "json_path", "unwrap")
    /\ LET t == Top(th).t
       IN /\ txnLock' = [txnLock EXCEPT ![t] = Unlocked(@, th)]
          /\ IF cell[t] = "Some"
             THEN /\ Return(th, Outcome(th, "json_path", "ok", t, EvalPath(Top(th).vs, arr[txnDoc[t]]), "none"))
                  /\ UNCHANGED fatal
             ELSE PanicOut(th, "json_path", t, "unwrap_none")
    /\ UNCHANGED <<facVars, syncVars, obsVars, ffiVars>>
    /\ UNCHANGED <<hDoc, parentOf, docLock, cell, phase, txnDoc, store, arr, changed, borrowFlag,
                   observed, nInserted, seenLen>>

\* ------------------------------- YrsTransaction::transaction_apply_update
\* YrsTransaction::transaction_apply_update, `Update::decode_v1(update.as_slice())`:
\* done before the transaction is locked; a failure is returned as DecodingError.
ApplyDecode(th, t, bytes) ==
    /\ CanCall(th, "apply_update", t)
    /\ Born(t)
    /\ IF DecodeOk(bytes)
       THEN /\ Push(th, FrameR("apply_update", "lock", t, 0, 0, DecodeV1(bytes)))
            /\ Silent
       ELSE /\ result' = Outcome(th, "apply_update", "err", t, 0, "DecodingError")
            /\ UNCHANGED stack
    /\ UNCHANGED <<facVars, syncVars, obsVars>>
    /\ UNCHANGED <<hDoc, parentOf, docLock, txnLock, cell, phase, txnDoc, store, arr, changed,
                   borrowFlag, observed, fatal, nInserted, seenLen>>
    /\ UNCHANGED ffiVars

\* `let mut guard = self.transaction()` in the and_then closure.
ApplyLock(th) ==
    /\ Silent
    /\ ~fatal
    /\ At(th, "apply_update", "lock")
    /\ CanLock(txnLock[Top(th).t], th)
    /\ txnLock' = [txnLock EXCEPT ![Top(th).t] = Locked(@, th)]
    /\ Goto(th, "apply")
    /\ UNCHANGED <<facVars, syncVars, obsVars>>
    /\ UNCHANGED <<hDoc, parentOf, docLock, cell, phase, txnDoc, store, arr, changed, borrowFlag,
                   observed, fatal, nInserted, seenLen>>
    /\ UNCHANGED ffiVars

\* `guard.as_mut().unwrap().apply_update(u).map_err(|_| CodingError::DecodingError)`,
\* then the guard drops.
ApplyUpdate(th) ==
    /\ ~fatal
    /\ At(th, "apply_update", "apply")
    /\ LET t == Top(th).t
           d == txnDoc[t]
           st == ApplyTo(d, Top(th).vs)
       IN /\ txnLock' = [txnLock EXCEPT ![t] = Unlocked(@, th)]
          /\ IF cell[t] # "Some"
             THEN /\ PanicOut(th, "apply_update", t, "unwrap_none")
                  /\ UNCHANGED <<blocks, ord, pend, arr, changed, root>>
             ELSE /\ blocks' = [blocks EXCEPT ![d] = st.blocks]
                  /\ ord' = [ord EXCEPT ![d] = st.ord]
                  /\ pend' = [pend EXCEPT ![d] = st.pend]
                  /\ arr' = [arr EXCEPT ![d] = Content(st)]
                  /\ changed' = [changed EXCEPT ![t] = @ \/ st.blocks # blocks[d]]
                  /\ root' = [root EXCEPT ![d]["a"] =
                                 IF st.blocks # blocks[d] THEN GetOrInsert(d, "a") ELSE @]
                  /\ Return(th, IF st.err
                                THEN Outcome(th, "apply_update", "err", t, 0, "DecodingError")
                                ELSE Outcome(th, "apply_update", "ok", t, 0, "none"))
                  /\ UNCHANGED fatal
    /\ UNCHANGED <<facAddr, facKey, before, wire, obsVars>>
    /\ UNCHANGED <<hDoc, parentOf, docLock, cell, phase, txnDoc, store, borrowFlag, observed,
                   nInserted, seenLen>>
    /\ UNCHANGED ffiVars

\* YrsTransaction::transaction_encode_state_as_update, `let mut guard = self.transaction()`.
StateLock(th, t) ==
    /\ Silent
    /\ CanCall(th, "encode_state_as_update", t)
    /\ Born(t)
    /\ CanLock(txnLock[t], th)
    /\ txnLock' = [txnLock EXCEPT ![t] = Locked(@, th)]
    /\ Push(th, Frame("encode_state_as_update", "unwrap", 0, t, 0, 0, ""))
    /\ UNCHANGED <<facVars, syncVars, obsVars>>
    /\ UNCHANGED <<hDoc, parentOf, docLock, cell, phase, txnDoc, store, arr, changed, borrowFlag,
                   observed, fatal, nInserted, seenLen>>
    /\ UNCHANGED ffiVars

\* `guard.as_mut().unwrap()` and `tx.encode_state_as_update_v1(&StateVector::default())`:
\* every block of the store; then the guard drops.
StateUnwrap(th) ==
    /\ ~fatal
    /\ At(th, "encode_state_as_update", "unwrap")
    /\ LET t == Top(th).t
       IN /\ txnLock' = [txnLock EXCEPT ![t] = Unlocked(@, th)]
          /\ IF cell[t] = "Some"
             THEN /\ wire' = EncodeV1(BlocksFrom(txnDoc[t], 0))
                  /\ Return(th, Outcome(th, "encode_state_as_update", "ok", t, 0, "none"))
                  /\ UNCHANGED fatal
             ELSE /\ PanicOut(th, "encode_state_as_update", t, "unwrap_none")
                  /\ UNCHANGED wire
    /\ UNCHANGED <<facVars, blocks, ord, pend, before, obsVars>>
    /\ UNCHANGED <<hDoc, parentOf, docLock, cell, phase, txnDoc, store, arr, changed, borrowFlag,
                   observed, nInserted, seenLen>>
    /\ UNCHANGED ffiVars

\* ------------------------------------------------------- specification
\* Indices a caller passes: the first position and one past the longest array.
Indices == {0, MaxLen}

Next ==
    \/ \E th \in Threads, h \in Handles : TransactDoc(th, h)
    \/ \E th \in Threads : TransactMut(th)
    \/ \E th \in Threads, t \in Txns : FreeLock(th, t)
    \/ \E th \in Threads : FreeAssign(th)
    \/ \E th \in Threads : FreeDrop(th)
    \/ \E th \in Threads : FreeWrite(th)
    \/ \E th \in Threads : DelegateReturn(th)
    \/ \E th \in Threads, f \in Arrays, t \in Txns : LengthBorrow(th, f, t)
    \/ \E th \in Threads : LengthLock(th)
    \/ \E th \in Threads : LengthLen(th)
    \/ \E th \in Threads, f \in Arrays, t \in Txns, ix \in Indices, v \in JsonTexts :
          InsertParse(th, f, t, ix, v)
    \/ \E th \in Threads : InsertLock(th)
    \/ \E th \in Threads : InsertBorrow(th)
    \/ \E th \in Threads : InsertApply(th)
    \/ \E th \in Threads, f \in Arrays : Observe(th, f)
    \/ \E th \in Threads, h \in Handles, o \in Handles : PtrEqSelf(th, h, o)
    \/ \E th \in Threads : PtrEqOther(th)
    \/ \E th \in Threads : PtrEqCompare(th)
    \/ \E th \in Threads, f \in Arrays : Dispose(th, f)
    \/ \E th \in Threads, f \in Arrays : DropSubscription(th, f)

Spec == Init /\ [][Next]_vars

\* Value lists a caller passes to insert_range; the last has an unparsable value.
Ranges == {<<"1", "2">>, <<"2">>, <<"1", "{">>}

\* A document right after YrsDoc::new: no root collection, no facade.
InitNew ==
    /\ hDoc = [h \in Handles |-> IF h = 1 THEN 1 ELSE 0]
    /\ parentOf = [d \in Docs |-> 0]
    /\ docLock = [h \in Handles |-> [th \in Threads |-> 0]]
    /\ txnLock = [t \in Txns |-> [th \in Threads |-> 0]]
    /\ cell = [t \in Txns |-> "Unborn"]
    /\ phase = [t \in Txns |-> "none"]
    /\ txnDoc = [t \in Txns |-> 0]
    /\ store = [d \in Docs |-> 0]
    /\ arr = [d \in Docs |-> <<>>]
    /\ changed = [t \in Txns |-> FALSE]
    /\ borrowFlag = [f \in Arrays |-> 0]
    /\ observed = [f \in Arrays |-> FALSE]
    /\ stack = [th \in Threads |-> <<>>]
    /\ result = NoResult
    /\ fatal = FALSE
    /\ nInserted = [d \in Docs |-> 0]
    /\ seenLen = [f \in Arrays |-> -1]
    /\ root = [d \in Docs |-> [n \in Names |-> 0]]
    /\ facAddr = [f \in Arrays |-> 0]
    /\ facKey = [f \in Arrays |-> <<0, "">>]
    /\ blocks = [d \in Docs |-> <<>>]
    /\ pend = [d \in Docs |-> <<>>]
    /\ ord = [d \in Docs |-> <<>>]
    /\ before = [t \in Txns |-> 0]
    /\ wire = <<>>
    /\ sub = [f \in Arrays |-> NoSub]
    /\ calls = <<>>
    /\ origin = [t \in Txns |-> <<>>]
    /\ item = NoItem

\* The calls of the array scenario: begin, get_array("a"), insert_range, length,
\* to_a and free, all made by one thread.
NextArray ==
    \/ \E th \in {"A"}, h \in Handles : TransactDoc(th, h)
    \/ \E th \in {"A"} : TransactMut(th)
    \/ \E th \in {"A"}, h \in Handles : GetArrayDoc(th, h, "a")
    \/ \E th \in {"A"} : GetArrayRoot(th)
    \/ \E th \in {"A"}, f \in Arrays, t \in Txns, ix \in Indices, vs \in Ranges :
          RangeBorrow(th, f, t, ix, vs)
    \/ \E th \in {"A"} : RangeLock(th)
    \/ \E th \in {"A"} : RangeParse(th)
    \/ \E th \in {"A"} : RangeApply(th)
    \/ \E th \in {"A"}, f \in Arrays, t \in Txns : LengthBorrow(th, f, t)
    \/ \E th \in {"A"} : LengthLock(th)
    \/ \E th \in {"A"} : LengthLen(th)
    \/ \E th \in {"A"}, f \in Arrays, t \in Txns : ToABorrow(th, f, t)
    \/ \E th \in {"A"} : ToALock(th)
    \/ \E th \in {"A"} : ToACollect(th)
    \/ \E th \in {"A"}, t \in Txns : FreeLock(th, t)
    \/ \E th \in {"A"} : FreeAssign(th)
    \/ \E th \in {"A"} : FreeDrop(th)
    \/ \E th \in {"A"} : FreeWrite(th)

SpecArray == InitNew /\ [][NextArray]_vars

\* Two documents right after YrsDoc::new, each with its handle.
InitRoots ==
    /\ hDoc = [h \in Handles |-> IF h <= 2 THEN h ELSE 0]
    /\ parentOf = [d \in Docs |-> 0]
    /\ docLock = [h \in Handles |-> [th \in Threads |-> 0]]
    /\ txnLock = [t \in Txns |-> [th \in Threads |-> 0]]
    /\ cell = [t \in Txns |-> "Unborn"]
    /\ phase = [t \in Txns |-> "none"]
    /\ txnDoc = [t \in Txns |-> 0]
    /\ store = [d \in Docs |-> 0]
    /\ arr = [d \in Docs |-> <<>>]
    /\ changed = [t \in Txns |-> FALSE]
    /\ borrowFlag = [f \in Arrays |-> 0]
    /\ observed = [f \in Arrays |-> FALSE]
    /\ stack = [th \in Threads |-> <<>>]
    /\ result = NoResult
    /\ fatal = FALSE
    /\ nInserted = [d \in Docs |-> 0]
    /\ seenLen = [f \in Arrays |-> -1]
    /\ root = [d \in Docs |-> [n \in Names |-> 0]]
    /\ facAddr = [f \in Arrays |-> 0]
    /\ facKey = [f \in Arrays |-> <<0, "">>]
    /\ blocks = [d \in Docs |-> <<>>]
    /\ pend = [d \in Docs |-> <<>>]
    /\ ord = [d \in Docs |-> <<>>]
    /\ before = [t \in Txns |-> 0]
    /\ wire = <<>>
    /\ sub = [f \in Arrays |-> NoSub]
    /\ calls = <<>>
    /\ origin = [t \in Txns |-> <<>>]
    /\ item = NoItem

\* get_array for any name on either document, and raw_ptr of the facades.
NextRoots ==
    \/ \E th \in Threads, h \in Handles, n \in Names : GetArrayDoc(th, h, n)
    \/ \E th \in Threads : GetArrayRoot(th)
    \/ \E th \in Threads, f \in Arrays : RawPtr(th, f)

SpecRoots == InitRoots /\ [][NextRoots]_vars

\* Two documents with their handles: D (document 1), whose array "a" is empty or
\* holds one value an earlier transaction committed, with its facade; and a fresh
\* empty document (document 2).
InitSync ==
    /\ hDoc = [h \in Handles |-> IF h <= 2 THEN h ELSE 0]
    /\ parentOf = [d \in Docs |-> 0]
    /\ docLock = [h \in Handles |-> [th \in Threads |-> 0]]
    /\ txnLock = [t \in Txns |-> [th \in Threads |-> 0]]
    /\ cell = [t \in Txns |-> "Unborn"]
    /\ phase = [t \in Txns |-> "none"]
    /\ txnDoc = [t \in Txns |-> 0]
    /\ store = [d \in Docs |-> 0]
    /\ \E n \in 0..1 :
          /\ arr = [d \in Docs |-> IF d = 1 /\ n = 1 THEN <<1>> ELSE <<>>]
          /\ blocks = [d \in Docs |-> IF d = 1 /\ n = 1 THEN <<[left |-> 0, val |-> 1]>> ELSE <<>>]
          /\ ord = [d \in Docs |-> IF d = 1 /\ n = 1 THEN <<1>> ELSE <<>>]
          /\ nInserted = [d \in Docs |-> IF d = 1 THEN n ELSE 0]
    /\ changed = [t \in Txns |-> FALSE]
    /\ borrowFlag = [f \in Arrays |-> 0]
    /\ observed = [f \in Arrays |-> FALSE]
    /\ stack = [th \in Threads |-> <<>>]
    /\ result = NoResult
    /\ fatal = FALSE
    /\ seenLen = [f \in Arrays |-> -1]
    /\ root = [d \in Docs |-> [n \in Names |-> IF d = 1 /\ n = "a" THEN 1 ELSE 0]]
    /\ facAddr = [f \in Arrays |-> IF f = 1 THEN 1 ELSE 0]
    /\ facKey = [f \in Arrays |-> IF f = 1 THEN <<1, "a">> ELSE <<0, "">>]
    /\ pend = [d \in Docs |-> <<>>]
    /\ before = [t \in Txns |-> 0]
    /\ wire = <<>>
    /\ sub = [f \in Arrays |-> NoSub]
    /\ calls = <<>>
    /\ origin = [t \in Txns |-> <<>>]
    /\ item = NoItem

\* Update bytes a caller passes to apply_update: the ones the last encode call
\* returned, bytes that are no update, and an update the engine rejects.
Updates == {wire, Garbage, Rejected}

\* Edits of D, the encode calls and apply_update, made by one thread.
NextSync ==
    \/ \E h \in Handles : TransactDoc("A", h)
    \/ TransactMut("A")
    \/ \E f \in Arrays, t \in Txns, ix \in 0..1, v \in {"1", "2"} : InsertParse("A", f, t, ix, v)
    \/ InsertLock("A")
    \/ InsertBorrow("A")
    \/ InsertApply("A")
    \/ \E t \in Txns : EncodeLock("A", t)
    \/ EncodeUnwrap("A")
    \/ \E t \in Txns : StateLock("A", t)
    \/ StateUnwrap("A")
    \/ \E t \in Txns, bytes \in Updates : ApplyDecode("A", t, bytes)
    \/ ApplyLock("A")
    \/ ApplyUpdate("A")

SpecSync == InitSync /\ [][NextSync]_vars

\* Entries an array can hold: 0 stands for a nested collection (a value that is no
\* Out::Any), Node(5, 0) is an undefined reference, the others are numbers.
Entries == {Node(5, 0), 0, 1, 2}
Contents == UNION {[1..n -> Entries] : n \in 0..MaxLen}

\* A document whose array "a" holds committed entries, some of them nested
\* collections, with the facade of the array.
InitBulk ==
    /\ hDoc = [h \in Handles |-> IF h = 1 THEN 1 ELSE 0]
    /\ parentOf = [d \in Docs |-> 0]
    /\ docLock = [h \in Handles |-> [th \in Threads |-> 0]]
    /\ txnLock = [t \in Txns |-> [th \in Threads |-> 0]]
    /\ cell = [t \in Txns |-> "Unborn"]
    /\ phase = [t \in Txns |-> "none"]
    /\ txnDoc = [t \in Txns |-> 0]
    /\ store = [d \in Docs |-> 0]
    /\ \E xs \in Contents :
          /\ arr = [d \in Docs |-> IF d = 1 THEN xs ELSE <<>>]
          /\ blocks = [d \in Docs |-> IF d = 1 THEN [i \in 1..Len(xs) |-> [left |-> i - 1, val |-> xs[i]]]
                                      ELSE <<>>]
          /\ ord = [d \in Docs |-> IF d = 1 THEN [i \in 1..Len(xs) |-> i] ELSE <<>>]
          /\ nInserted = [d \in Docs |-> IF d = 1 THEN Len(xs) ELSE 0]
    /\ changed = [t \in Txns |-> FALSE]
    /\ borrowFlag = [f \in Arrays |-> 0]
    /\ observed = [f \in Arrays |-> FALSE]
    /\ stack = [th \in Threads |-> <<>>]
    /\ result = NoResult
    /\ fatal = FALSE
    /\ seenLen = [f \in Arrays |-> -1]
    /\ root = [d \in Docs |-> [n \in Names |-> IF d = 1 /\ n = "a" THEN 1 ELSE 0]]
    /\ facAddr = [f \in Arrays |-> IF f = 1 THEN 1 ELSE 0]
    /\ facKey = [f \in Arrays |-> IF f = 1 THEN <<1, "a">> ELSE <<0, "">>]
    /\ pend = [d \in Docs |-> <<>>]
    /\ before = [t \in Txns |-> 0]
    /\ wire = <<>>
    /\ sub = [f \in Arrays |-> NoSub]
    /\ calls = <<>>
    /\ origin = [t \in Txns |-> <<>>]
    /\ item = NoItem

\* begin, the bulk readers each and to_a, and free, made by one thread.
NextBulk ==
    \/ \E h \in Handles : TransactDoc("A", h)
    \/ TransactMut("A")
    \/ \E f \in Arrays, t \in Txns : EachLock("A", f, t)
    \/ EachUnwrap("A")
    \/ EachBorrow("A")
    \/ EachCall("A")
    \/ EachDone("A")
    \/ \E f \in Arrays, t \in Txns : ToABorrow("A", f, t)
    \/ ToALock("A")
    \/ ToACollect("A")
    \/ \E t \in Txns : FreeLock("A", t)
    \/ FreeAssign("A")
    \/ FreeDrop("A")
    \/ FreeWrite("A")

SpecBulk == InitBulk /\ [][NextBulk]_vars

\* One thread asks is_undefined and get for indexes inside and outside an array whose
\* elements are scalars, collections and undefined references, and removes elements.
NextSlots ==
    \/ TransactDoc("A", 1)
    \/ TransactMut("A")
    \/ \E t \in Txns, ix \in 0..MaxLen : IsUndefinedLock("A", 1, t, ix)
    \/ IsUndefinedBorrow("A")
    \/ IsUndefinedMatch("A")
    \/ \E t \in Txns, ix \in 0..MaxLen : GetLock("A", 1, t, ix)
    \/ GetBorrow("A")
    \/ GetValue("A")
    \/ \E t \in Txns, ix \in 0..MaxLen : RemoveLock("A", 1, t, ix)
    \/ RemoveBorrow("A")
    \/ RemoveApply("A")
    \/ \E t \in Txns : FreeLock("A", t)
    \/ FreeAssign("A")
    \/ FreeDrop("A")
    \/ FreeWrite("A")

SpecSlots == InitBulk /\ [][NextSlots]_vars

\* The values an entry change can carry: two scalars and one value of every other
\* kind.
Outs == {1, 2} \cup {Node(k, 1) : k \in 1..Len(Kinds)}
Changes ==
    {<<tag, v>> : tag \in {"Inserted", "Removed"}, v \in Outs}
    \cup {<<"Updated", o, n>> : o \in Outs, n \in Outs}
Items == [key : {"k", "m"}, change : Changes]

\* A map observer was handed one entry change of one key.
InitChange ==
    /\ hDoc = [h \in Handles |-> IF h = 1 THEN 1 ELSE 0]
    /\ parentOf = [d \in Docs |-> 0]
    /\ docLock = [h \in Handles |-> [th \in Threads |-> 0]]
    /\ txnLock = [t \in Txns |-> [th \in Threads |-> 0]]
    /\ cell = [t \in Txns |-> "Unborn"]
    /\ phase = [t \in Txns |-> "none"]
    /\ txnDoc = [t \in Txns |-> 0]
    /\ store = [d \in Docs |-> 0]
    /\ arr = [d \in Docs |-> <<>>]
    /\ changed = [t \in Txns |-> FALSE]
    /\ borrowFlag = [f \in Arrays |-> 0]
    /\ observed = [f \in Arrays |-> FALSE]
    /\ stack = [th \in Threads |-> <<>>]
    /\ result = NoResult
    /\ fatal = FALSE
    /\ nInserted = [d \in Docs |-> 0]
    /\ seenLen = [f \in Arrays |-> -1]
    /\ root = [d \in Docs |-> [n \in Names |-> IF d = 1 /\ n = "a" THEN 1 ELSE 0]]
    /\ facAddr = [f \in Arrays |-> IF f = 1 THEN 1 ELSE 0]
    /\ facKey = [f \in Arrays |-> IF f = 1 THEN <<1, "a">> ELSE <<0, "">>]
    /\ blocks = [d \in Docs |-> <<>>]
    /\ pend = [d \in Docs |-> <<>>]
    /\ ord = [d \in Docs |-> <<>>]
    /\ before = [t \in Txns |-> 0]
    /\ wire = <<>>
    /\ sub = [f \in Arrays |-> NoSub]
    /\ calls = <<>>
    /\ origin = [t \in Txns |-> <<>>]
    /\ item \in Items

NextChange == ConvertEntryChange("A")

SpecChange == InitChange /\ [][NextChange]_vars

\* The origins a caller begins a transaction with, as bytes.
Origins == {<<>>, <<1>>, <<2, 255>>}

\* Transactions begun with and without an origin, the origin read back, and free,
\* by two threads.
NextOrigin ==
    \/ \E th \in Threads : TransactDoc(th, 1)
    \/ \E th \in Threads, bs \in Origins : TransactDocWith(th, 1, bs)
    \/ \E th \in Threads : TransactMut(th)
    \/ \E th \in Threads, t \in Txns : OriginLock(th, t)
    \/ \E th \in Threads : OriginRead(th)
    \/ \E th \in Threads, t \in Txns : FreeLock(th, t)
    \/ \E th \in Threads : FreeAssign(th)
    \/ \E th \in Threads : FreeDrop(th)
    \/ \E th \in Threads : FreeWrite(th)

SpecOrigin == Init /\ [][NextOrigin]_vars

\* One thread fills the array and calls each; the delegate of the each calls the
\* facade again (length, get, to_a, insert, push_back, remove) with the same
\* transaction.
NextEach ==
    \/ TransactDoc("A", 1)
    \/ TransactMut("A")
    \/ \E t \in Txns : EachLock("A", 1, t)
    \/ EachUnwrap("A")
    \/ EachBorrow("A")
    \/ EachEnter("A")
    \/ EachDelegateReturn("A")
    \/ EachDone("A")
    \/ \E t \in Txns : LengthBorrow("A", 1, t)
    \/ LengthLock("A")
    \/ LengthLen("A")
    \/ \E t \in Txns : GetLock("A", 1, t, 0)
    \/ GetBorrow("A")
    \/ GetValue("A")
    \/ \E t \in Txns : ToABorrow("A", 1, t)
    \/ ToALock("A")
    \/ ToACollect("A")
    \/ \E t \in Txns : InsertParse("A", 1, t, 0, "1")
    \/ InsertLock("A")
    \/ InsertBorrow("A")
    \/ InsertApply("A")
    \/ \E t \in Txns : PushParse("A", 1, t, "2")
    \/ PushLock("A")
    \/ PushUnwrap("A")
    \/ PushApply("A")
    \/ \E t \in Txns : RemoveLock("A", 1, t, 0)
    \/ RemoveBorrow("A")
    \/ RemoveApply("A")
    \/ \E t \in Txns : FreeLock("A", t)
    \/ FreeAssign("A")
    \/ FreeDrop("A")
    \/ FreeWrite("A")

SpecEach == Init /\ [][NextEach]_vars

\* Bytes that are no update and bytes that are no state vector.
BadUpdates == {<<>>, Garbage}
BadVectors == {<<>>, <<7>>, <<1, 1>>}
\* State vectors: the empty one and client 1 at clock 1.
Vectors == {<<0>>, <<1, 1, 1>>}

\* One thread edits the array and calls apply_update and the two encoders with
\* bytes that decode and bytes that do not, inside transactions and after free.
NextDecode ==
    \/ TransactDoc("A", 1)
    \/ TransactMut("A")
    \/ \E t \in Txns, v \in {"1", "2"} : InsertParse("A", 1, t, 0, v)
    \/ InsertLock("A")
    \/ InsertBorrow("A")
    \/ InsertApply("A")
    \/ \E t \in Txns, bytes \in BadUpdates \cup {wire} : ApplyDecode("A", t, bytes)
    \/ ApplyLock("A")
    \/ ApplyUpdate("A")
    \/ \E t \in Txns, op \in DiffOps, sv \in BadVectors \cup Vectors : DiffLock("A", t, op, sv)
    \/ DiffEncode("A")
    \/ \E t \in Txns : FreeLock("A", t)
    \/ FreeAssign("A")
    \/ FreeDrop("A")
    \/ FreeWrite("A")

SpecDecode == InitSync /\ [][NextDecode]_vars

\* Path expressions that do not parse, and ones that do.
BadPaths == {<<>>, <<".a">>, <<"$", "[">>}
Paths == {<<"$", ".a", "[0]">>, <<"$", ".a", "[*]">>}

\* Thread A calls json_path while thread B begins transactions, appends to the
\* array and frees.
NextPath ==
    \/ TransactDoc("B", 1)
    \/ TransactMut("B")
    \/ \E t \in Txns : PushParse("B", 1, t, "1")
    \/ PushLock("B")
    \/ PushUnwrap("B")
    \/ PushApply("B")
    \/ \E t \in Txns, path \in BadPaths \cup Paths : JsonPathParse("A", t, path)
    \/ JsonPathLock("A")
    \/ JsonPathEval("A")
    \/ \E t \in Txns : FreeLock("B", t)
    \/ FreeAssign("B")
    \/ FreeDrop("B")
    \/ FreeWrite("B")

SpecPath == Init /\ [][NextPath]_vars

\* The origin thread A begins its transactions with (thread B begins with none):
\* it tells whose transaction holds the store.
OriginA == <<1>>

\* Thread A begins transactions on handle 1, reads the guid through the handle and
\* frees; thread B begins transactions on the same handle and frees them.
NextWait ==
    \/ TransactDocWith("A", 1, OriginA)
    \/ TransactDoc("B", 1)
    \/ \E th \in Threads : TransactMut(th)
    \/ GuidDoc("A", 1)
    \/ GuidRead("A")
    \/ \E th \in Threads, t \in Txns : FreeLock(th, t)
    \/ \E th \in Threads : FreeAssign(th)
    \/ \E th \in Threads : FreeDrop(th)
    \/ \E th \in Threads : FreeWrite(th)

SpecWait == Init /\ [][NextWait]_vars

\* ------------------------------------------------- subdocuments and a freed transaction
\* The subdocuments the store of document d holds, in the order of their guids.
SubdocsOf(d) == SelectSeq(<<1, 2>>, LAMBDA s : parentOf[s] = d)

\* The calls that read the subdocuments of a transaction's document.
SubdocReads == {"subdoc_guids", "subdocs"}
\* The calls of a YrsDoc that take the parent's transaction.
SubdocCalls == {"destroy", "load"}

\* YrsTransaction::subdoc_guids and ::subdocs, `let guard = self.transaction()`.
SubdocsLock(th, t, op) ==
    /\ Silent
    /\ op \in SubdocReads
    /\ CanCall(th, op, t)
    /\ Born(t)
    /\ op = "subdocs" => NoHandle # {}
    /\ CanLock(txnLock[t], th)
    /\ txnLock' = [txnLock EXCEPT ![t] = Locked(@, th)]
    /\ Push(th, Frame(op, "read", 0, t, 0, 0, ""))
    /\ UNCHANGED <<facVars, syncVars, obsVars, ffiVars>>
    /\ UNCHANGED <<hDoc, parentOf, docLock, cell, phase, txnDoc, store, arr, changed, borrowFlag,
                   observed, fatal, nInserted, seenLen>>

\* `guard.as_ref().map(|txn| ...collect()).unwrap_or_default()`: of a Some the guids,
\* or a new YrsDoc (from_doc) around each subdocument; of a None the empty Vec.  The
\* guard drops at the return.
SubdocsRead(th) ==
    /\ ~fatal
    /\ ~Idle(th)
    /\ Top(th).op \in SubdocReads
    /\ Top(th).pc = "read"
    /\ LET t == Top(th).t
           op == Top(th).op
           ds == IF cell[t] = "Some" THEN SubdocsOf(txnDoc[t]) ELSE <<>>
       IN /\ txnLock' = [txnLock EXCEPT ![t] = Unlocked(@, th)]
          /\ hDoc' = IF op = "subdocs" /\ ds # <<>>
                     THEN [hDoc EXCEPT ![NewHandle] = ds[1]] ELSE hDoc
          /\ docLock' = IF op = "subdocs" /\ ds # <<>>
                        THEN [docLock EXCEPT ![NewHandle] = [o \in Threads |-> 0]] ELSE docLock
          /\ Return(th, Outcome(th, op, "ok", t, ds, "none"))
    /\ UNCHANGED <<facVars, syncVars, obsVars, ffiVars>>
    /\ UNCHANGED <<parentOf, cell, phase, txnDoc, store, arr, changed, borrowFlag,
                   observed, fatal, nInserted, seenLen>>

\* YrsDoc::destroy and ::load, `let mut tx = parent_txn.transaction()`.
DestroyLock(th, h, t, op) ==
    /\ Silent
    /\ op \in SubdocCalls
    /\ CanCall(th, op, t)
    /\ hDoc[h] # 0
    /\ Born(t)
    /\ CanLock(txnLock[t], th)
    /\ txnLock' = [txnLock EXCEPT ![t] = Locked(@, th)]
    /\ Push(th, Frame(op, "check", h, t, 0, 0, ""))
    /\ UNCHANGED <<facVars, syncVars, obsVars, ffiVars>>
    /\ UNCHANGED <<hDoc, parentOf, docLock, cell, phase, txnDoc, store, arr, changed, borrowFlag,
                   observed, fatal, nInserted, seenLen>>

\* A destroy or load that skips the test and goes on to the document.
DestroyUnchecked(t) == TRUE

\* The test `if let Some(tx) = tx.as_mut()`.
DestroyIsSome(t) == cell[t] = "Some"

\* `if let Some(tx) = tx.as_mut() { ... }`: with a None the body is skipped, the guard
\* drops and the call returns.
DestroyCheck(th) ==
    /\ ~fatal
    /\ ~Idle(th)
    /\ Top(th).op \in SubdocCalls
    /\ Top(th).pc = "check"
    /\ LET t == Top(th).t
       IN IF DestroyIsSome(t)
          THEN /\ Goto(th, "doc")
               /\ Silent
               /\ UNCHANGED txnLock
          ELSE /\ txnLock' = [txnLock EXCEPT ![t] = Unlocked(@, th)]
               /\ Return(th, Outcome(th, Top(th).op, "ok", t, 0, "skipped"))
    /\ UNCHANGED <<facVars, syncVars, obsVars, ffiVars>>
    /\ UNCHANGED <<hDoc, parentOf, docLock, cell, phase, txnDoc, store, arr, changed, borrowFlag,
                   observed, fatal, nInserted, seenLen>>

\* `self.doc().as_ref().destroy(tx)` / `.load(tx)`: the handle's mutex is taken (the
\* transaction's is held), the engine call made and both guards dropped.  Of the
\* engine's destroy the model keeps that a subdocument is taken out of its parent's
\* store; its load changes nothing the model holds.
DestroyDoc(th) ==
    /\ ~fatal
    /\ ~Idle(th)
    /\ Top(th).op \in SubdocCalls
    /\ Top(th).pc = "doc"
    /\ LET t == Top(th).t
           h == Top(th).h
       IN /\ CanLock(docLock[h], th)
          /\ parentOf' = IF Top(th).op = "destroy"
                         THEN [parentOf EXCEPT ![hDoc[h]] = 0] ELSE parentOf
          /\ txnLock' = [txnLock EXCEPT ![t] = Unlocked(@, th)]
          /\ Return(th, Outcome(th, Top(th).op, "ok", t, 0, "none"))
    /\ UNCHANGED <<facVars, syncVars, obsVars, ffiVars>>
    /\ UNCHANGED <<hDoc, docLock, cell, phase, txnDoc, store, arr, changed, borrowFlag,
                   observed, fatal, nInserted, seenLen>>

\* One thread observes the array, writes it inside transactions and frees them; the
\* observer delegate the commit fires frees the committing transaction again.
NextRefree ==
    \/ Observe("A", 1)
    \/ TransactDoc("A", 1)
    \/ TransactMut("A")
    \/ \E t \in Txns : PushParse("A", 1, t, "1")
    \/ PushLock("A")
    \/ PushUnwrap("A")
    \/ PushApply("A")
    \/ \E t \in Txns : FreeLock("A", t)
    \/ FreeAssign("A")
    \/ FreeDrop("A")
    \/ FreeWrite("A")
    \/ FreeReenter("A")
    \/ DelegateReturn("A")

SpecRefree == Init /\ [][NextRefree]_vars

\* begin, insert_range (also with a value that is no JSON), length and free, called
\* by both threads on one document, its array and its transactions.
NextRange ==
    \/ \E th \in Threads, h \in Handles : TransactDoc(th, h)
    \/ \E th \in Threads : TransactMut(th)
    \/ \E th \in Threads, f \in Arrays, t \in Txns, ix \in Indices, vs \in Ranges :
          RangeBorrow(th, f, t, ix, vs)
    \/ \E th \in Threads : RangeLock(th)
    \/ \E th \in Threads : RangeParse(th)
    \/ \E th \in Threads : RangeApply(th)
    \/ \E th \in Threads, f \in Arrays, t \in Txns : LengthBorrow(th, f, t)
    \/ \E th \in Threads : LengthLock(th)
    \/ \E th \in Threads : LengthLen(th)
    \/ \E th \in Threads, t \in Txns : FreeLock(th, t)
    \/ \E th \in Threads : FreeAssign(th)
    \/ \E th \in Threads : FreeDrop(th)
    \/ \E th \in Threads : FreeWrite(th)

SpecRange == Init /\ [][NextRange]_vars

\* begin, insert, free and the drop of a Transaction's last handle, by both threads.
NextDrop ==
    \/ \E th \in Threads, h \in Handles : TransactDoc(th, h)
    \/ \E th \in Threads : TransactMut(th)
    \/ \E th \in Threads, f \in Arrays, t \in Txns, ix \in Indices, v \in JsonTexts :
          InsertParse(th, f, t, ix, v)
    \/ \E th \in Threads : InsertLock(th)
    \/ \E th \in Threads : InsertBorrow(th)
    \/ \E th \in Threads : InsertApply(th)
    \/ \E th \in Threads, t \in Txns : FreeLock(th, t)
    \/ \E th \in Threads : FreeAssign(th)
    \/ \E th \in Threads : FreeDrop(th)
    \/ \E th \in Threads : FreeWrite(th)
    \/ \E th \in Threads, t \in Txns : DropTxn(th, t)

SpecDrop == Init /\ [][NextDrop]_vars

\* Two facades of the root array "a" are made before a transaction begins; then one
\* thread writes through the first (insert, push_back) and reads through the second
\* (length, to_a), in one Transaction or in later ones.
NextAlias ==
    \/ \E h \in Handles : GetArrayDoc("A", h, "a")
    \/ GetArrayRoot("A")
    \/ \E h \in Handles : TransactDoc("A", h)
    \/ TransactMut("A")
    \/ \E t \in Txns, ix \in Indices, v \in {"1", "2"} : InsertParse("A", 1, t, ix, v)
    \/ InsertLock("A")
    \/ InsertBorrow("A")
    \/ InsertApply("A")
    \/ \E t \in Txns, v \in {"1", "2"} : PushParse("A", 1, t, v)
    \/ PushLock("A")
    \/ PushUnwrap("A")
    \/ PushApply("A")
    \/ \E t \in Txns : LengthBorrow("A", 2, t)
    \/ LengthLock("A")
    \/ LengthLen("A")
    \/ \E t \in Txns : ToABorrow("A", 2, t)
    \/ ToALock("A")
    \/ ToACollect("A")
    \/ \E t \in Txns : FreeLock("A", t)
    \/ FreeAssign("A")
    \/ FreeDrop("A")
    \/ FreeWrite("A")

SpecAlias == InitNew /\ [][NextAlias]_vars

\* The kinds of nested collection an array facade inserts and gets.
Collections == {"map", "array", "text"}

\* One thread inserts nested collections and scalars into the array and gets nested
\* collections by index and kind, inside transactions.
NextNested ==
    \/ TransactDoc("A", 1)
    \/ TransactMut("A")
    \/ \E t \in Txns, ix \in 0..MaxLen, k \in {"map", "array"} : InsertNestedLock("A", 1, t, ix, k)
    \/ InsertNestedBorrow("A")
    \/ InsertNestedApply("A")
    \/ \E t \in Txns, ix \in 0..MaxLen, k \in Collections : GetNestedLock("A", 1, t, ix, k)
    \/ GetNestedBorrow("A")
    \/ GetNestedMatch("A")
    \/ \E t \in Txns : InsertParse("A", 1, t, 0, "1")
    \/ InsertLock("A")
    \/ InsertBorrow("A")
    \/ InsertApply("A")
    \/ \E t \in Txns : FreeLock("A", t)
    \/ FreeAssign("A")
    \/ FreeDrop("A")
    \/ FreeWrite("A")

SpecNested == Init /\ [][NextNested]_vars

\* Document handles: document 2 is a subdocument of document 1 (integrated by an
\* earlier insert_doc), handle 1 wraps document 1 and handle 2 document 2.
InitDocs ==
    /\ hDoc = [h \in Handles |-> IF h <= 2 THEN h ELSE 0]
    /\ parentOf = [d \in Docs |-> IF d = 2 THEN 1 ELSE 0]
    /\ docLock = [h \in Handles |-> [th \in Threads |-> 0]]
    /\ txnLock = [t \in Txns |-> [th \in Threads |-> 0]]
    /\ cell = [t \in Txns |-> "Unborn"]
    /\ phase = [t \in Txns |-> "none"]
    /\ txnDoc = [t \in Txns |-> 0]
    /\ store = [d \in Docs |-> 0]
    /\ arr = [d \in Docs |-> <<>>]
    /\ changed = [t \in Txns |-> FALSE]
    /\ borrowFlag = [f \in Arrays |-> 0]
    /\ observed = [f \in Arrays |-> FALSE]
    /\ stack = [th \in Threads |-> <<>>]
    /\ result = NoResult
    /\ fatal = FALSE
    /\ nInserted = [d \in Docs |-> 0]
    /\ seenLen = [f \in Arrays |-> -1]
    /\ root = [d \in Docs |-> [n \in Names |-> IF d = 1 /\ n = "a" THEN 1 ELSE 0]]
    /\ facAddr = [f \in Arrays |-> IF f = 1 THEN 1 ELSE 0]
    /\ facKey = [f \in Arrays |-> IF f = 1 THEN <<1, "a">> ELSE <<0, "">>]
    /\ blocks = [d \in Docs |-> <<>>]
    /\ pend = [d \in Docs |-> <<>>]
    /\ ord = [d \in Docs |-> <<>>]
    /\ before = [t \in Txns |-> 0]
    /\ wire = <<>>
    /\ sub = [f \in Arrays |-> NoSub]
    /\ calls = <<>>
    /\ origin = [t \in Txns |-> <<>>]
    /\ item = NoItem

NextDocs ==
    \/ \E th \in Threads, h \in Handles : GuidDoc(th, h)
    \/ \E th \in Threads : GuidRead(th)
    \/ \E th \in Threads, h \in Handles : ParentDocDoc(th, h)
    \/ \E th \in Threads : ParentDocWrap(th)
    \/ \E th \in Threads, h \in Handles, o \in Handles : PtrEqSelf(th, h, o)
    \/ \E th \in Threads : PtrEqOther(th)
    \/ \E th \in Threads : PtrEqCompare(th)

SpecDocs == InitDocs /\ [][NextDocs]_vars

\* Two threads begin and free transactions on document 1, whose subdocument is
\* document 2 (handle 2), and call the operations that take a transaction without
\* unwrapping it.
NextTolerant ==
    \/ \E th \in Threads : TransactDoc(th, 1)
    \/ \E th \in Threads : TransactDocWith(th, 1, OriginA)
    \/ \E th \in Threads : TransactMut(th)
    \/ \E th \in Threads, t \in Txns : FreeLock(th, t)
    \/ \E th \in Threads : FreeAssign(th)
    \/ \E th \in Threads : FreeDrop(th)
    \/ \E th \in Threads : FreeWrite(th)
    \/ \E th \in Threads, t \in Txns : OriginLock(th, t)
    \/ \E th \in Threads : OriginRead(th)
    \/ \E th \in Threads, t \in Txns, op \in SubdocReads : SubdocsLock(th, t, op)
    \/ \E th \in Threads : SubdocsRead(th)
    \/ \E th \in Threads, t \in Txns, op \in SubdocCalls : DestroyLock(th, 2, t, op)
    \/ \E th \in Threads : DestroyCheck(th)
    \/ \E th \in Threads : DestroyDoc(th)

SpecTolerant == InitDocs /\ [][NextTolerant]_vars

\* ---------------------------------------------------------- guards held
\* The TransactionGuards a frame holds on transaction t (from `transaction()` or
\* `self.0.lock()` to the end of the function).
TxnGuardsOf(fr, t) ==
    /\ fr.t = t
    /\ \/ fr.op \in {"free", "encode_update", "encode_state_as_update", "each"}
       \/ fr.op = "length" /\ fr.pc = "len"
       \/ fr.op = "insert" /\ fr.pc \in {"borrow", "apply"}
       \/ fr.op = "insert_range" /\ fr.pc \in {"parse", "apply"}
       \/ fr.op = "to_a" /\ fr.pc = "collect"
       \/ fr.op = "apply_update" /\ fr.pc = "apply"
       \/ fr.op = "push_back" /\ fr.pc \in {"unwrap", "apply"}
       \/ fr.op \in {"insert_nested", "get_nested", "is_undefined", "get", "remove"}

\* The frame holds a shared borrow (`borrow()`) of facade f's RefCell.
SharedBorrowOf(fr, f) ==
    /\ fr.f = f
    /\ \/ fr.op \in {"length", "to_a"}
       \/ fr.op = "each" /\ fr.pc = "iter"
       \/ fr.op \in {"get_nested", "is_undefined", "get"} /\ fr.pc = "match"

\* The frame holds the mutable borrow (`borrow_mut()`) of facade f's RefCell.
MutBorrowOf(fr, f) ==
    /\ fr.f = f
    /\ \/ fr.op = "insert_range"
       \/ fr.op = "insert" /\ fr.pc = "apply"
       \/ fr.op \in {"insert_nested", "remove"} /\ fr.pc = "apply"

\* The borrow flag the live frames account for: -1 under a mutable borrow, else the
\* number of shared borrows.
Borrows(f) ==
    IF \E th \in Threads : \E i \in 1..Depth(th) : MutBorrowOf(stack[th][i], f)
    THEN -1
    ELSE Cardinality(UNION {{<<th, i>> : i \in {j \in 1..Depth(th) : SharedBorrowOf(stack[th][j], f)}} :
                               th \in Threads})

\* The DocGuards a frame holds on handle h (from `self.doc()` to the end of the
\* function or statement).
DocGuardsOf(fr, h) == fr.op \in {"transact", "guid", "parent_doc", "ptr_eq"} /\ fr.h = h

\* ptr_eq's second DocGuard, on the other handle (`other.doc()`).
OtherGuardsOf(fr, h) == fr.op = "ptr_eq" /\ fr.pc = "compare" /\ fr.o = h

\* The Transactions that are Active on document d.
ActiveOn(d) == {t \in Txns : Active(t) /\ txnDoc[t] = d}

\* The number of guards the frames of thread th hold on a cell.
TxnGuards(th, t) == Cardinality({i \in 1..Depth(th) : TxnGuardsOf(stack[th][i], t)})
DocGuards(th, h) ==
    Cardinality({i \in 1..Depth(th) : DocGuardsOf(stack[th][i], h)})
    + Cardinality({i \in 1..Depth(th) : OtherGuardsOf(stack[th][i], h)})

\* ----------------------------------------------------------------- claims

\* C1: an operation called with a Transaction that has been freed ends with a typed
\* TransactionFreed outcome and never terminates the program.
C1_FreedTransactionIsTypedError ==
    result.why = "unwrap_none" => (result.kind = "TransactionFreed" /\ ~fatal)

\* C2: each document has at most one Active Transaction; a Transaction begun later
\* on a document exists only once every earlier one has released the store, and
\* every operation that reads or writes through a Transaction runs while that
\* Transaction is the one holding the document's store.
C2_SingleActiveTransaction ==
    /\ \A d \in Docs : Cardinality(ActiveOn(d)) <= 1
    /\ \A t \in Txns, u \in Txns :
          (t < u /\ Born(u) /\ txnDoc[t] = txnDoc[u]) => phase[t] = "released"
    /\ \A th \in Threads :
          At(th, "insert", "apply") => (Active(Top(th).t) /\ store[txnDoc[Top(th).t]] = Top(th).t)
    /\ (result.kind = "ok" /\ result.op \in {"length", "insert", "encode_update"}) =>
          (Active(result.t) /\ store[txnDoc[result.t]] = result.t)

C2_Witness == \E t \in Txns, u \in Txns : Freed(t) /\ Active(u) /\ txnDoc[t] = txnDoc[u]

C4_ObserverReadsPostInsertLength ==
    \A th \in Threads :
        /\ (At(th, "delegate", "run") /\ seenLen[Top(th).f] # -1) =>
              (seenLen[Top(th).f] = nInserted[ArrDoc(Top(th).f)] /\ seenLen[Top(th).f] >= 1)
        /\ (~fatal /\ At(th, "length", "lock") /\ FromDelegate(th)) => ENABLED LengthLock(th)
        /\ ~(fatal /\ result.th = th /\ ~Idle(th) /\ Top(th).op = "delegate")

C4_Witness ==
    \E th \in Threads : At(th, "delegate", "run") /\ seenLen[Top(th).f] >= 1

\* C5: a Guarded Cell is reentrant: the count of a cell is the number of guards its
\* thread holds, so the cell stays held until the last nested guard is released,
\* and a thread that holds a cell is never blocked taking it again.
C5_ReentrantGuardedCell ==
    \A th \in Threads :
        /\ \A t \in Txns : txnLock[t][th] = TxnGuards(th, t)
        /\ \A h \in Handles : docLock[h][th] = DocGuards(th, h)
        /\ (~fatal /\ At(th, "length", "lock") /\ txnLock[Top(th).t][th] > 0)
              => ENABLED LengthLock(th)
        /\ (~fatal /\ At(th, "ptr_eq", "other") /\ docLock[Top(th).o][th] > 0)
              => ENABLED PtrEqOther(th)

C5_Witness ==
    \E a \in Threads, b \in Threads, t \in Txns, h \in Handles :
        txnLock[t][a] = 2 /\ docLock[h][b] = 2

\* C6: at most one thread holds guards on a Guarded Cell, and a thread at lock()
\* does not proceed while another thread holds the cell.
C6_OneHolderPerCell ==
    /\ \A t \in Txns : Cardinality({th \in Threads : TxnGuards(th, t) > 0}) <= 1
    /\ \A h \in Handles : Cardinality({th \in Threads : DocGuards(th, h) > 0}) <= 1
    /\ \A th \in Threads, o \in Threads :
        (o # th) =>
          /\ (At(th, "length", "lock") /\ TxnGuards(o, Top(th).t) > 0) => ~ENABLED LengthLock(th)
          /\ (At(th, "insert", "lock") /\ TxnGuards(o, Top(th).t) > 0) => ~ENABLED InsertLock(th)
          /\ (At(th, "ptr_eq", "other") /\ DocGuards(o, Top(th).o) > 0) => ~ENABLED PtrEqOther(th)

C6_Witness ==
    \E th \in Threads, o \in Threads :
        o # th /\ At(th, "length", "lock") /\ TxnGuards(o, Top(th).t) > 0

\* C7: two threads are never at the same time inside guarded accesses to one
\* document through two handles that alias it.
C7_AliasedHandlesExclude ==
    \A g \in Handles, h \in Handles, a \in Threads, b \in Threads :
        (hDoc[g] # 0 /\ hDoc[g] = hDoc[h] /\ a # b)
            => ~(DocGuards(a, g) > 0 /\ DocGuards(b, h) > 0)

\* C8: free on a Transaction that is already Freed returns normally and changes
\* neither the Transaction nor the document's store.
C8_FreeIdempotent ==
    [][\A th \in Threads :
          (At(th, "free", "assign") /\ cell[Top(th).t] = "None" /\ stack'[th] # stack[th])
              => /\ result'.op = "free" /\ result'.kind = "ok" /\ ~fatal'
                 /\ cell' = cell /\ phase' = phase /\ store' = store
                 /\ arr' = arr /\ changed' = changed]_vars

C8_Witness ==
    \E t \in Txns :
        result.op = "free" /\ result.why = "noop" /\ Active(t) /\ txnDoc[t] = txnDoc[result.t]

\* C9: once a Transaction is Freed it stays Freed, whatever is called on it.
C9_FreedIsTerminal ==
    [][\A t \in Txns : cell[t] = "None" => cell'[t] = "None"]_vars

C9_Witness ==
    \E t \in Txns : Freed(t) /\ result.t = t /\ result.why = "unwrap_none"

\* C10: a read returns every write made before it on the document, through the same
\* Transaction or through a Transaction that has been freed.
C10_WritesVisible ==
    (result.op = "length" /\ result.kind = "ok") => result.val = nInserted[1]

C10_Witness ==
    /\ result.op = "length" /\ result.kind = "ok" /\ result.val >= 1
    /\ Active(result.t) /\ ~changed[result.t]
    /\ \E t \in Txns : t # result.t /\ Freed(t)

\* C11: in the sequence create D, T1 = begin(D), get_array(D, "a") with T1 still
\* Active, insert_range, length, free, T2 = begin(D), to_a, run by one thread, no
\* call blocks: the thread's get_array can always proceed; and length and to_a return
\* what was inserted.
C11_ScenarioRunsToCompletion ==
    /\ \A th \in Threads :
          (~fatal /\ At(th, "get_array", "root") /\ \A o \in Threads \ {th} : Idle(o))
              => ENABLED GetArrayRoot(th)
    /\ (result.op = "length" /\ result.kind = "ok") => result.val = Len(arr[1])
    /\ (result.op = "to_a" /\ result.kind = "ok") => Len(result.val) = Len(arr[1])

\* C12: two facades that get_array returned for the same document and name have
\* equal raw_ptr identities, and facades of two different documents have different
\* ones.
C12_HandleIdentity ==
    \A f \in Arrays, g \in Arrays :
        (facAddr[f] # 0 /\ facAddr[g] # 0) =>
            /\ facKey[f] = facKey[g] => RawPtrOf(f) = RawPtrOf(g)
            /\ facKey[f][1] # facKey[g][1] => RawPtrOf(f) # RawPtrOf(g)

C12_Witness ==
    \E f \in Arrays, g \in Arrays :
        /\ f # g /\ facAddr[f] # 0 /\ facKey[f] = facKey[g]
        /\ result.op = "raw_ptr" /\ result.kind = "ok" /\ result.val = RawPtrOf(g)

\* C13: a transaction_apply_update that returns an error has changed neither the
\* document's store nor the transaction.
C13_RejectedApplyIsAtomic ==
    [][(result'.op = "apply_update" /\ result'.kind = "err") =>
          /\ blocks' = blocks /\ ord' = ord /\ pend' = pend /\ arr' = arr
          /\ cell' = cell /\ phase' = phase /\ changed' = changed /\ store' = store]_vars

\* The update of an apply_update step that is about to run against the fresh empty
\* document 2 is the decoded form of the bytes bs.
AppliesToFresh(th, bs) ==
    /\ At(th, "apply_update", "apply")
    /\ txnDoc[Top(th).t] = 2 /\ cell[Top(th).t] = "Some"
    /\ blocks[2] = <<>> /\ pend[2] = <<>>
    /\ DecodeOk(bs) /\ Top(th).vs = DecodeV1(bs)

\* C14 (as claimed): applying encode_update of any Transaction on D to a fresh empty
\* document makes that document's content equal to D's.
C14_EncodeUpdateRoundTrip ==
    [][\A th \in Threads, t \in Txns :
          (/\ Active(t) /\ txnDoc[t] = 1
           /\ AppliesToFresh(th, EncodeV1(BlocksFrom(1, before[t])))
           /\ result'.op = "apply_update")
              => (result'.kind = "ok" /\ arr'[2] = arr[1])]_vars

\* C14 (amended): applying the bytes of encode_state_as_update of a Transaction on D,
\* or of encode_update of a Transaction through which all of D's content was written,
\* to a fresh empty document makes that document's content equal to D's.
C14_StateRoundTrip ==
    [][\A th \in Threads, t \in Txns :
          (/\ Active(t) /\ txnDoc[t] = 1
           /\ \/ AppliesToFresh(th, EncodeV1(BlocksFrom(1, 0)))
              \/ before[t] = 0 /\ AppliesToFresh(th, EncodeV1(BlocksFrom(1, before[t])))
           /\ result'.op = "apply_update")
              => (result'.kind = "ok" /\ arr'[2] = arr[1])]_vars

C14_Witness ==
    /\ result.op = "apply_update" /\ result.kind = "ok" /\ txnDoc[result.t] = 2
    /\ Len(arr[1]) = 2 /\ arr[1][1] # arr[1][2] /\ arr[2] = arr[1]
    /\ \E t \in Txns : Active(t) /\ txnDoc[t] = 1 /\ before[t] = 1
    /\ wire = EncodeV1(BlocksFrom(1, 0))

\* C15: each and to_a surface only the scalar entries of an array: to_a returns the
\* scalar values in order, and each has called its delegate exactly once per scalar
\* entry when it returns (never for a nested collection).
C15_BulkReadersSkipNested ==
    LET scalars == SelectSeq(arr[1], LAMBDA x : x # 0)
    IN /\ (result.op = "to_a" /\ result.kind = "ok") =>
             result.val = [i \in 1..Len(scalars) |-> ToJson(scalars[i])]
       /\ (result.op = "each" /\ result.kind = "ok") =>
             calls = [i \in 1..Len(scalars) |-> ToJson(scalars[i])]

C17_FacadeOperationsSerialize ==
    /\ ~(result.kind = "panic" /\ result.why = "borrow")
    /\ \A f \in Arrays : borrowFlag[f] \in {-1, 0, 1}

\* C18: the Subscription returned by observe unregisters its callback exactly once:
\* the callback is unregistered at most once, it is unregistered after dispose and
\* after drop (also a drop without dispose), a delegate is only invoked for a live
\* Subscription, and a second dispose returns normally and changes nothing.
C18_SubscriptionUnregistersOnce ==
    [][\A f \in Arrays :
          /\ sub'[f].n <= 1
          /\ sub'[f].st \in {"disposed", "dropped"} => (sub'[f].n = 1 /\ ~observed'[f])
          /\ (\E th \in Threads : /\ Cardinality(DelegateFrames(th)) = 0
                                  /\ At(th, "delegate", "run")' /\ Top(th)'.f = f)
                => sub[f].st = "live"
          /\ (result'.op = "dispose" /\ result'.val = f) =>
                /\ result'.kind = "ok"
                /\ sub[f].st = "disposed" => (sub'[f] = sub[f] /\ observed' = observed)]_vars

C18_Witness ==
    \E f \in Arrays :
        /\ result.op = "dispose" /\ result.why = "noop" /\ result.val = f
        /\ sub[f] = [st |-> "disposed", n |-> 1]
        /\ \E t \in Txns : Freed(t) /\ txnDoc[t] = ArrDoc(f)

\* C19: no poisoning: after an operation has failed (a value that is no JSON in
\* insert_range, an operation on a Freed Transaction, a refused borrow), the locks and
\* borrows are exactly those the calls still running hold, so the failed call holds
\* none, and every cell no running call holds can be acquired by every thread.
C19_NoPoisoning ==
    (result.kind \in {"panic", "err"}) =>
        /\ \A th \in Threads, t \in Txns : txnLock[t][th] = TxnGuards(th, t)
        /\ \A th \in Threads, h \in Handles : docLock[h][th] = DocGuards(th, h)
        /\ \A f \in Arrays : borrowFlag[f] = Borrows(f)
        /\ \A t \in Txns, o \in Threads :
              (\A th \in Threads : TxnGuards(th, t) = 0) => CanLock(txnLock[t], o)
        /\ \A f \in Arrays : Borrows(f) = 0 => borrowFlag[f] = 0

C19_Witness ==
    /\ result.op = "insert_range" /\ result.kind = "panic" /\ result.why = "json"
    /\ \A th \in Threads : Idle(th)
    /\ \A t \in Txns, th \in Threads : txnLock[t][th] = 0
    /\ \A f \in Arrays : borrowFlag[f] = 0
    /\ Active(result.t)

\* C20: a Transaction whose last handle was dropped without free has ended its
\* mutation window as free does: it is released, it does not hold the document's
\* store, what it wrote is kept, and a begin on the same Document that finds no
\* Active Transaction can proceed.
C20_DropEndsMutationWindow ==
    \A t \in Txns :
        cell[t] = "Dropped" =>
            /\ phase[t] = "released"
            /\ store[txnDoc[t]] # t
            /\ Len(arr[txnDoc[t]]) = nInserted[txnDoc[t]]
            /\ \A th \in Threads :
                  (/\ ~fatal /\ At(th, "transact", "transact_mut")
                   /\ hDoc[Top(th).h] = txnDoc[t] /\ ActiveOn(txnDoc[t]) = {})
                      => ENABLED TransactMut(th)

C20_Witness ==
    /\ result.op = "drop_txn" /\ result.why = "committed" /\ cell[result.t] = "Dropped"
    /\ Len(arr[txnDoc[result.t]]) >= 1
    /\ \E th \in Threads :
          /\ At(th, "transact", "transact_mut") /\ hDoc[Top(th).h] = txnDoc[result.t]
          /\ ENABLED TransactMut(th)

\* C21: two facades obtained for the same root array wrap the same Branch, and a
\* read (length, to_a) through the second returns every element written through the
\* first (insert, push_back) by the calls that have returned.
C21_FacadesAliasSharedState ==
    /\ (facAddr[1] # 0 /\ facAddr[2] # 0 /\ facKey[1] = facKey[2]) => facAddr[1] = facAddr[2]
    /\ (result.op = "length" /\ result.kind = "ok") =>
          (result.val = nInserted[ArrDoc(2)] /\ result.val = Len(arr[ArrDoc(1)]))
    /\ (result.op = "to_a" /\ result.kind = "ok") =>
          (Len(result.val) = nInserted[ArrDoc(2)] /\ result.val = SelectAny(arr[ArrDoc(1)]))

C21_Witness ==
    /\ facAddr[1] # 0 /\ facAddr[1] = facAddr[2]
    /\ result.op = "to_a" /\ result.kind = "ok" /\ Len(result.val) = 2
    /\ Active(result.t) /\ changed[result.t]

\* C22: the facade insert_map / insert_array / insert_text returns wraps the Branch
\* of the element it inserted at the index, a new Branch that no other element or
\* root has; a later typed getter returns a facade of that same Branch for an index
\* at which the element is a collection of the kind asked for, and None for an index
\* out of bounds or an element of another kind.
C22_NestedFacadeSameNode ==
    [][\A th \in Threads :
          /\ (At(th, "insert_nested", "apply") /\ result'.op = "insert_nested" /\ result'.kind = "ok") =>
                /\ result'.val > 0 /\ result'.val \notin Allocated
                /\ arr'[ArrDoc(Top(th).f)][Top(th).ix + 1] = Node(KindCode(Top(th).v), result'.val)
          /\ (At(th, "get_nested", "match") /\ result'.op = "get_nested") =>
                LET xs == arr[ArrDoc(Top(th).f)]
                    ix == Top(th).ix
                IN /\ result'.kind = "ok"
                   /\ (ix >= Len(xs) \/ KindOf(xs[IF ix < Len(xs) THEN ix + 1 ELSE 1]) # Top(th).v)
                         => result'.val = 0
                   /\ (ix < Len(xs) /\ KindOf(xs[IF ix < Len(xs) THEN ix + 1 ELSE 1]) = Top(th).v)
                         => (result'.val > 0 /\ Node(KindCode(Top(th).v), result'.val) = xs[ix + 1])
          /\ \A i, j \in 1..Len(arr'[1]) :
                (i # j /\ arr'[1][i] < 0 /\ arr'[1][j] < 0) => AddrOf(arr'[1][i]) # AddrOf(arr'[1][j])]_vars

C22_Witness ==
    /\ result.op = "get_nested" /\ result.kind = "ok" /\ result.val > 0 /\ result.why = "array"
    /\ Len(arr[1]) = 2 /\ arr[1][2] = Node(2, result.val) /\ arr[1][1] > 0

C24_MapChangeScalarsOnly ==
    (result.op = "try_from_entry_change") =>
        LET c == item.change
            scalars == \A i \in 2..Len(c) : c[i] > 0
        IN /\ scalars <=> result.val # <<>>
           /\ scalars =>
                 /\ Len(result.val) = 1
                 /\ result.val[1].key = item.key
                 /\ result.val[1].change[1] = c[1]
                 /\ Len(result.val[1].change) = Len(c)

C24_Witness ==
    /\ result.op = "try_from_entry_change" /\ result.val = <<>>
    /\ item.change[1] = "Updated" /\ item.change[2] = Node(2, 1) /\ item.change[3] = 1

\* C25: a Transaction begun with origin bytes o has the origin o from its begin and
\* keeps it while it is Active, origin() of an Active Transaction returns the origin
\* it has, and a Transaction begun without an origin has none.
C25_OriginRoundTrip ==
    [][\A th \in Threads :
          /\ (At(th, "transact", "transact_mut") /\ result'.th = th /\ result'.op = "transact"
                                                  /\ result'.kind = "ok") =>
                origin'[result'.t] = Top(th).vs
          /\ (At(th, "origin", "read") /\ result'.th = th /\ result'.op = "origin" /\ Active(Top(th).t)) =>
                (result'.kind = "ok" /\ result'.val = origin[Top(th).t])
          /\ \A t \in Txns : (Active(t) /\ Active(t)') => origin'[t] = origin[t]]_vars

C25_Witness ==
    /\ result.op = "origin" /\ result.kind = "ok" /\ result.val = <<(<<2, 255>>)>>
    /\ Active(result.t) /\ result.t = 2 /\ Freed(1) /\ origin[1] # origin[2]

\* C26: while each runs its per-item delegate, a call the delegate makes on the same
\* thread with the same Transaction to the same facade (length, get, to_a, insert,
\* push_back, remove) is not blocked and does not fail.
C26_EachDelegateReenters ==
    \A th \in Threads :
        At(th, "each_delegate", "run") =>
            /\ CanLock(txnLock[Top(th).t], th)
            /\ ~(result.th = th /\ result.kind = "panic" /\ result.op \in EachDelegateOps)

\* C27: with an Active Transaction, transaction_apply_update with bytes that are no
\* update, and encode_diff_v1 and transaction_encode_state_as_update_from_sv with
\* bytes that are no state vector, return DecodingError, leave the Transaction Active
\* and leave the store (and the bytes the caller holds) unchanged.
C27_DecodingFailuresAreTyped ==
    [][\A th \in Threads :
          /\ \A t \in Txns, bytes \in BadUpdates :
                (Active(t) /\ ApplyDecode(th, t, bytes)) =>
                    /\ result' = Outcome(th, "apply_update", "err", t, 0, "DecodingError")
                    /\ Active(t)' /\ UNCHANGED <<syncVars, arr, changed>>
          /\ \A t \in Txns :
                (~Idle(th) /\ Top(th).op \in DiffOps /\ Top(th).pc = "unwrap" /\ Top(th).t = t
                   /\ result'.th = th /\ result'.op \in DiffOps /\ Active(t) /\ Top(th).vs \in BadVectors) =>
                    /\ result'.kind = "err" /\ result'.why = "DecodingError" /\ result'.op = Top(th).op
                    /\ Active(t)' /\ UNCHANGED <<syncVars, arr, changed>>]_vars

C27_Witness ==
    /\ result.kind = "err" /\ result.why = "DecodingError" /\ result.op = "encode_state_as_update_from_sv"
    /\ Active(result.t) /\ changed[result.t] /\ Len(arr[1]) = 2 /\ wire # <<>>

\* C28: json_path with a path expression that does not parse returns ParseError in
\* its first step, whether the Transaction is Active or Freed and whoever holds its
\* lock, and takes no lock and changes no state on the way.
C28_ParseErrorBeforeLock ==
    [][\A th \in Threads, t \in Txns, path \in BadPaths :
          JsonPathParse(th, t, path) =>
              /\ result' = Outcome(th, "json_path", "err", t, 0, "ParseError")
              /\ UNCHANGED <<txnLock, docLock, stack, cell, phase, fatal, arr, syncVars>>]_vars

C28_Witness ==
    /\ result.op = "json_path" /\ result.kind = "err" /\ result.why = "ParseError"
    /\ Freed(result.t) /\ \E u \in Txns : Active(u) /\ txnLock[u]["B"] > 0

\* C29: while thread B waits inside transact on the handle of document D for the
\* store that the Active Transaction of thread A holds, thread A is not blocked: the
\* lock its accessors on that handle (guid, client_id, auto_load, get_array, ...)
\* take is available to it, so A and B never wait on each other.
C29_HolderNotBlockedByWaiter ==
    \A h \in Handles :
        (/\ At("B", "transact", "transact_mut") /\ Top("B").h = h
         /\ store[hDoc[h]] # 0 /\ Active(store[hDoc[h]])
         /\ origin[store[hDoc[h]]] = <<OriginA>>
         /\ Idle("A"))
        => CanLock(docLock[h], "A")

\* C30: when one thread calls a.ptr_eq(b) and another b.ptr_eq(a), the two calls are
\* never in a cyclic wait, each holding the lock of its first handle and waiting for
\* the lock of its second.
C30_PtrEqNoCyclicWait ==
    \A th \in Threads, o \in Threads :
        (th # o /\ At(th, "ptr_eq", "other") /\ At(o, "ptr_eq", "other")) =>
            (CanLock(docLock[Top(th).o], th) \/ CanLock(docLock[Top(o).o], o))

\* C31: the engine transaction of a Transaction is committed once and dropped
\* (released) once, whatever free calls are made: a commit begins only on an open
\* transaction, and `*ptr = None` drops the old value only when no drop of it has
\* begun, also for a free re-entered from a delegate while the first free commits.
C31_CommittedAndReleasedOnce ==
    [][\A th \in Threads, t \in Txns :
          /\ (phase[t] # "committing" /\ phase'[t] = "committing") => phase[t] = "open"
          /\ (At(th, "free", "assign") /\ Top(th).t = t /\ cell[t] = "Some" /\ stack'[th] # stack[th])
                => phase[t] = "open"
          /\ (At(th, "free", "drop") /\ Top(th).t = t /\ stack'[th] # stack[th])
                => phase[t] = "committing"]_vars

\* C32: origin, subdoc_guids, subdocs, destroy and load called with a freed
\* transaction return normally (origin none, the two lists empty, destroy and load
\* nothing) and no step of such a call changes any document or transaction state:
\* it only takes and gives back the transaction's lock.
C32_FreedIsTolerated ==
    [][\A th \in Threads, t \in Txns :
          (/\ stack'[th] # stack[th]
           /\ cell[t] = "None"
           /\ \/ /\ ~Idle(th)
                 /\ Top(th).op \in {"origin"} \cup SubdocReads \cup SubdocCalls
                 /\ Top(th).t = t
              \/ /\ Len(stack'[th]) = Len(stack[th]) + 1
                 /\ stack'[th][Len(stack'[th])].op \in {"origin"} \cup SubdocReads \cup SubdocCalls
                 /\ stack'[th][Len(stack'[th])].t = t)
          => /\ ~fatal'
             /\ UNCHANGED <<hDoc, parentOf, docLock, cell, phase, txnDoc, store, arr, changed,
                            blocks, ord, pend, origin>>
             /\ \A o \in Txns \ {t} : txnLock'[o] = txnLock[o]
             /\ result'.th = th
                => /\ result'.kind = "ok"
                   /\ result'.t = t
                   /\ result'.op \in {"origin"} \cup SubdocReads => result'.val = <<>>
                   /\ txnLock'[t][th] = 0]_vars

\* A destroy with a freed transaction has returned; the subdocument is still its
\* parent's.
C32_Witness ==
    /\ result.op = "destroy"
    /\ result.kind = "ok"
    /\ cell[result.t] = "None"
    /\ parentOf[2] = 1

\* C33 as stated: insert_range parses every value before it inserts any; with a
\* freed transaction or a value that is no JSON the array is unchanged, and otherwise
\* (every index) all values are inserted contiguously at the index in list order.
C33_RangeAllOrNothingAnyIndex ==
    [][\A th \in Threads :
          (~Idle(th) /\ Top(th).op = "insert_range" /\ stack'[th] # stack[th])
          => LET t == Top(th).t
                 d == ArrDoc(Top(th).f)
                 ix == Top(th).ix
                 vs == Top(th).vs
                 n == Len(vs)
                 old == arr[d]
             IN /\ Top(th).pc # "apply" => arr' = arr /\ ord' = ord /\ blocks' = blocks
                /\ (Top(th).pc = "parse" /\ (cell[t] # "Some" \/ \E i \in 1..n : ~JsonOk(vs[i])))
                      => result'.th = th /\ result'.kind = "panic"
                /\ Top(th).pc = "apply"
                      => /\ cell[t] = "Some"
                         /\ \A i \in 1..n : JsonOk(vs[i])
                         /\ TRUE
                            => /\ result'.th = th /\ result'.kind = "ok"
                               /\ Len(arr'[d]) = Len(old) + n
                               /\ \A i \in 1..ix : arr'[d][i] = old[i]
                               /\ \A i \in 1..n : arr'[d][ix + i] = FromJson(vs[i])
                               /\ \A i \in (ix + 1)..Len(old) : arr'[d][i + n] = old[i]
                         /\ ix > Len(old)
                            => /\ result'.th = th /\ result'.kind = "panic"
                               /\ arr' = arr /\ ord' = ord /\ blocks' = blocks]_vars

\* C33, amended: insert_range parses every value before it inserts any; with a freed
\* transaction or a value that is no JSON the call fails and the array is unchanged;
\* otherwise, if the index is at most the array's length, all values are inserted
\* contiguously at the index in list order, and if the index is past the end the
\* call fails with nothing inserted.
C33_RangeAllOrNothing ==
    [][\A th \in Threads :
          (~Idle(th) /\ Top(th).op = "insert_range" /\ stack'[th] # stack[th])
          => LET t == Top(th).t
                 d == ArrDoc(Top(th).f)
                 ix == Top(th).ix
                 vs == Top(th).vs
                 n == Len(vs)
                 old == arr[d]
             IN /\ Top(th).pc # "apply" => arr' = arr /\ ord' = ord /\ blocks' = blocks
                /\ (Top(th).pc = "parse" /\ (cell[t] # "Some" \/ \E i \in 1..n : ~JsonOk(vs[i])))
                      => result'.th = th /\ result'.kind = "panic"
                /\ Top(th).pc = "apply"
                      => /\ cell[t] = "Some"
                         /\ \A i \in 1..n : JsonOk(vs[i])
                         /\ ix <= Len(old)
                            => /\ result'.th = th /\ result'.kind = "ok"
                               /\ Len(arr'[d]) = Len(old) + n
                               /\ \A i \in 1..ix : arr'[d][i] = old[i]
                               /\ \A i \in 1..n : arr'[d][ix + i] = FromJson(vs[i])
                               /\ \A i \in (ix + 1)..Len(old) : arr'[d][i + n] = old[i]
                         /\ ix > Len(old)
                            => /\ result'.th = th /\ result'.kind = "panic"
                               /\ arr' = arr /\ ord' = ord /\ blocks' = blocks]_vars

\* An insert_range of two values into the empty array has returned: both are there,
\* in list order.
C33_Witness ==
    /\ result.op = "insert_range"
    /\ result.kind = "ok"
    /\ arr[1] = <<1, 2>>
    /\ nInserted[1] = 2

====
